---------------------------- MODULE Spec2Model ----------------------------
(***************************************************************************)
(* A model of the .proto recursive-descent parser (src/src/lib.rs) and of  *)
(* FileDescriptor::parse (src/src/model.rs).                               *)
(*                                                                         *)
(* The input is a token stream.  It is supplied to the parser piece by     *)
(* piece: every action draws the tokens its production is about to read    *)
(* from a bounded set, and runs the production on them exactly as the code *)
(* does, token by token.  A piece that ends before the production is done  *)
(* is the end of the input.  The recursion of next_message_body is made    *)
(* explicit as a stack of frames, one per open `{`.                        *)
(***************************************************************************)
EXTENDS Integers, Sequences, FiniteSets, TLC

VARIABLES
    pc,      \* where FileDescriptor::parse is
    syntax,  \* Parser.syntax
    tk,      \* Parser.tokenizer: tokens consumed and tokens lexed so far
    stack,   \* the open next_message_body calls, innermost last
    file,    \* the accumulators of next_proto
    err,     \* the error next_proto returned with, or "None"
    stmt,    \* the piece of input the last step read, and the mode it ran in
    decls,   \* how many top-level statements were parsed
    result   \* what FileDescriptor::parse returned

vars == <<pc, syntax, tk, stack, file, err, stmt, decls, result>>

----------------------------------------------------------------------------
(* Bounds *)

\* Tokens one parse may read.
MaxTokens == 17

\* Statements parsed in one body, and at the top level of the file.
MaxItems == 1

\* Tokens laid out per source line (each token one column wide).
LineLen == 4

----------------------------------------------------------------------------
(* Tokens: src/src/lexer/token.rs *)

Ident(s)  == [k |-> "Ident",  v |-> s]
Symbol(c)  == [k |-> "Symbol", v |-> c]
IntLit(n) == [k |-> "IntLit", n |-> n]
StrLit(e) == [k |-> "StrLit", escaped |-> e]
\* A float is kept as its sign and the digits written.
FloatLit(x) == [k |-> "FloatLit", f |-> [neg |-> FALSE, mag |-> x]]
JsonNumber(x) == [k |-> "JsonNumber", v |-> x]

IsId(t, w) == t.k = "Ident" /\ t.v = w
IsSy(t, c) == t.k = "Symbol" /\ t.v = c

\* What the lookahead holds at the end of the input.
EofTok == [k |-> "Eof"]

----------------------------------------------------------------------------
(* Results of a production: the error (or "None"), the parser the caller   *)
(* is left with, and the value.                                            *)

NoVal == [t |-> "None"]
Ok(p, v)  == [err |-> "None", p |-> p, v |-> v]
Err(e, p) == [err |-> e, p |-> p, v |-> NoVal]
Failed(r) == r.err # "None"

\* A value computed once and named in what follows: `let r = ...;`
Let(r, F(_)) == F(r)

----------------------------------------------------------------------------
(* Source locations: Loc, 1-based line and column.  Token i of the input   *)
(* stands in column i of a layout of LineLen tokens per line.              *)

TokLoc(i) == [line |-> 1 + ((i - 1) \div LineLen), col |-> 1 + ((i - 1) % LineLen)]

----------------------------------------------------------------------------
(* Token stream.  p.ts: the tokens not yet consumed; p.pos: how many were  *)
(* consumed; p.lexed: how many were lexed (the lookahead is token pos+1).  *)

Peeked(p) == [p EXCEPT !.lexed = p.pos + 1]
Adv(p)    == [ts |-> Tail(p.ts), pos |-> p.pos + 1, lexed |-> p.pos + 1]
LA(p)     == IF p.ts = <<>> THEN EofTok ELSE Head(p.ts)

\* Tokenizer::loc: the location of the token lexed last.
loc(p) == IF p.lexed = 0 THEN TokLoc(1) ELSE TokLoc(p.lexed)

\* Tokenizer::lookahead_loc: the location of the next token (or of the end).
lookahead_loc(p) == TokLoc(p.pos + 1)

next_ident_if_eq(p, w) ==
    IF IsId(LA(p), w) THEN Ok(Adv(p), TRUE) ELSE Ok(Peeked(p), FALSE)

next_symbol_if_eq(p, c) ==
    IF IsSy(LA(p), c) THEN Ok(Adv(p), TRUE) ELSE Ok(Peeked(p), FALSE)

lookahead_is_symbol(p, c) == Ok(Peeked(p), IsSy(LA(p), c))

next_symbol_expect_eq(p, c) ==
    IF IsSy(LA(p), c) THEN Ok(Adv(p), TRUE) ELSE Err("TokenizerError", Peeked(p))

next_ident_expect_eq(p, w) ==
    IF IsId(LA(p), w) THEN Ok(Adv(p), TRUE) ELSE Err("TokenizerError", Peeked(p))

\* Fails when the next token is the identifier w; consumes nothing.
next_ident_if_eq_error(p, w) ==
    IF IsId(LA(p), w) THEN Err("TokenizerError", Peeked(p)) ELSE Ok(Peeked(p), TRUE)

next_ident(p) ==
    IF LA(p).k = "Ident" THEN Ok(Adv(p), LA(p).v) ELSE Err("TokenizerError", Peeked(p))

next_str_lit(p) ==
    IF LA(p).k = "StrLit" THEN Ok(Adv(p), LA(p)) ELSE Err("TokenizerError", Peeked(p))

----------------------------------------------------------------------------
(* MessageBodyParseMode: src/src/lib.rs 121-193 *)

Modes == {"MessageProto2", "MessageProto3", "Oneof", "ExtendProto2", "ExtendProto3"}

\* Rule::ALL and Rule::as_str (src/src/model.rs 231-241)
RuleALL == <<"Optional", "Repeated", "Required">>
as_str(rule) ==
    CASE rule = "Optional" -> "optional"
      [] rule = "Repeated" -> "repeated"
      [] rule = "Required" -> "required"

\* A table that lets every label into every body but a oneof.
label_allowed_but_oneof(mode, label) == mode # "Oneof"

label_allowed(mode, label) ==
    CASE label = "Repeated" -> mode \in {"MessageProto2", "MessageProto3",
                                         "ExtendProto2", "ExtendProto3"}
      [] label = "Optional" -> mode \in {"MessageProto2", "ExtendProto2",
                                         "MessageProto3", "ExtendProto3"}
      [] label = "Required" -> mode \in {"MessageProto2", "ExtendProto2"}

\* A table that requires a label nowhere.
some_label_required_nowhere(mode) == FALSE

some_label_required(mode) == mode \in {"MessageProto2", "ExtendProto2"}

\* A table that lets a map field into every body.
map_allowed_everywhere(mode) == TRUE

map_allowed(mode) ==
    mode \in {"MessageProto2", "MessageProto3", "ExtendProto2", "ExtendProto3"}

is_most_non_fields_allowed(mode) == mode \in {"MessageProto2", "MessageProto3"}

is_option_allowed(mode) == mode \in {"MessageProto2", "MessageProto3", "Oneof"}

\* A table that lets extension ranges into every message body.
is_extensions_allowed_in_messages(mode) == mode \in {"MessageProto2", "MessageProto3"}

is_extensions_allowed(mode) == mode = "MessageProto2"

----------------------------------------------------------------------------
(* Integers.  A u64 is written in three limbs of 31 bits,                  *)
(* a * 2^62 + b * 2^31 + c with a < 4; an i64 is a sign and a magnitude    *)
(* (zero has no sign); an i32 is an integer.                               *)

Limb == 2147483647

u64(a, b, c) == [a |-> a, b |-> b, c |-> c]
small(n) == u64(0, 0, n)

\* x <= y on u64
u64_le(x, y) ==
    \/ x.a < y.a
    \/ x.a = y.a /\ x.b < y.b
    \/ x.a = y.a /\ x.b = y.b /\ x.c <= y.c

I32_MAX == 2147483647
\* i32::MAX as u64, 2^31, i64::MAX as u64, 2^63
U_I32_MAX == u64(0, 0, I32_MAX)
U_2_31    == u64(0, 1, 0)
U_I64_MAX == u64(1, Limb, Limb)
U_2_63    == u64(2, 0, 0)

i64(neg, mag) == [neg |-> neg /\ mag # small(0), mag |-> mag]
I64_MIN == i64(TRUE, U_2_63)

(* Integer conversions: src/src/lib.rs 207-243 *)

\* The cast `as i32` without the comparison before it.
u64_to_i32_unchecked(u) == [err |-> "None", v |-> u.c]

\* impl ToI32 for u64
u64_to_i32(u) == IF u64_le(u, U_I32_MAX) THEN [err |-> "None", v |-> u.c]
                 ELSE [err |-> "IntegerOverflow", v |-> 0]

\* A range check that takes -i32::MAX for the least i32.
i64_to_i32_symmetric(i) ==
    IF u64_le(i.mag, U_I32_MAX)
    THEN [err |-> "None", v |-> IF i.neg THEN 0 - i.mag.c ELSE i.mag.c]
    ELSE [err |-> "IntegerOverflow", v |-> 0]

\* impl ToI32 for i64
i64_to_i32(i) ==
    IF ~i.neg /\ u64_le(i.mag, U_I32_MAX) THEN [err |-> "None", v |-> i.mag.c]
    ELSE IF i.neg /\ u64_le(i.mag, U_2_31)
    THEN [err |-> "None", v |-> IF i.mag = U_2_31 THEN (0 - I32_MAX) - 1 ELSE 0 - i.mag.c]
    ELSE [err |-> "IntegerOverflow", v |-> 0]

\* impl ToI64 for u64
u64_to_i64(u) == IF u64_le(u, U_I64_MAX) THEN [err |-> "None", v |-> i64(FALSE, u)]
                 ELSE [err |-> "IntegerOverflow", v |-> i64(FALSE, small(0))]

----------------------------------------------------------------------------
(* The methods of Parser call one another by name, self.next_x(..) being   *)
(* Call("next_x", <<..>>); Call is defined after the last of them.        *)

RECURSIVE Call(_, _)

----------------------------------------------------------------------------
(* Identifier paths: src/src/lib.rs 278-319.  A path is the sequence of    *)
(* the pieces pushed onto the string.                                      *)

RECURSIVE full_ident_loop(_, _)
full_ident_loop(p, full_ident) ==
    Let(next_symbol_if_eq(p, "."), LAMBDA d :
    IF ~d.v THEN Ok(d.p, full_ident)
    ELSE Let(next_ident(d.p), LAMBDA i :
         IF Failed(i) THEN i
         ELSE Call("full_ident_loop", <<i.p, full_ident \o <<".", i.v>>>>)))

next_full_ident(p) ==
    Let(next_symbol_if_eq(p, "."), LAMBDA d :
    Let(next_ident(d.p), LAMBDA i :
    IF Failed(i) THEN i
    ELSE Call("full_ident_loop", <<i.p, (IF d.v THEN <<".">> ELSE <<>>) \o <<i.v>>>>)))

next_full_ident_rel(p) ==
    Let(next_ident(p), LAMBDA i :
    IF Failed(i) THEN i ELSE Call("full_ident_loop", <<i.p, <<i.v>>>>))

next_message_or_enum_type(p) == Call("next_full_ident", <<p>>)

----------------------------------------------------------------------------
(* Constants: src/src/lib.rs 251-266, 333-446 *)

\* Token::to_num_lit (src/src/lexer/token.rs 31-37)
to_num_lit(t) ==
    CASE t.k = "IntLit"   -> [err |-> "None", v |-> [t |-> "U64", n |-> t.n]]
      [] t.k = "FloatLit" -> [err |-> "None", v |-> [t |-> "F64", f |-> t.f]]
      [] OTHER            -> [err |-> "LexerError", v |-> NoVal]

\* int::neg: the negation of a u64 as an i64, or overflow above 2^63.
int_neg(u) == IF u64_le(u, U_2_63) THEN [err |-> "None", v |-> i64(TRUE, u)]
              ELSE [err |-> "Overflow", v |-> i64(FALSE, small(0))]

\* Negation of a float: the sign is kept beside the literal.
f64_neg(f) == [f EXCEPT !.neg = ~f.neg]

\* A negation that goes through i64 first, as next_enum_value does.
to_option_value_by_i64(lit, sign_is_plus) ==
    CASE lit.t = "U64" /\ sign_is_plus  -> [err |-> "None", v |-> [t |-> "U64", n |-> lit.n]]
      [] lit.t = "F64" /\ sign_is_plus  -> [err |-> "None", v |-> [t |-> "F64", f |-> lit.f]]
      [] lit.t = "U64" /\ ~sign_is_plus ->
            IF u64_to_i64(lit.n).err # "None"
            THEN [err |-> "IntegerOverflow", v |-> NoVal]
            ELSE [err |-> "None", v |-> [t |-> "I64", n |-> i64(TRUE, lit.n)]]
      [] lit.t = "F64" /\ ~sign_is_plus ->
            [err |-> "None", v |-> [t |-> "F64", f |-> f64_neg(lit.f)]]

\* NumLitEx::to_option_value
to_option_value(lit, sign_is_plus) ==
    CASE lit.t = "U64" /\ sign_is_plus  -> [err |-> "None", v |-> [t |-> "U64", n |-> lit.n]]
      [] lit.t = "F64" /\ sign_is_plus  -> [err |-> "None", v |-> [t |-> "F64", f |-> lit.f]]
      [] lit.t = "U64" /\ ~sign_is_plus ->
            IF int_neg(lit.n).err # "None"
            THEN [err |-> "IntegerOverflow", v |-> NoVal]
            ELSE [err |-> "None", v |-> [t |-> "I64", n |-> int_neg(lit.n).v]]
      [] lit.t = "F64" /\ ~sign_is_plus ->
            [err |-> "None", v |-> [t |-> "F64", f |-> f64_neg(lit.f)]]

\* Tokenizer::next_token_check_map with Token::to_num_lit
next_num_lit(p) ==
    IF LA(p).k = "Eof" THEN Err("TokenizerError", Peeked(p))
    ELSE Let(to_num_lit(LA(p)), LAMBDA n :
         IF n.err # "None" THEN Err(n.err, Peeked(p)) ELSE Ok(Adv(p), n.v))

\* A reader that never takes `true` or `false` for a bool.
next_bool_lit_opt_never(p) == Ok(p, [some |-> FALSE, b |-> FALSE])

next_bool_lit_opt(p) ==
    Let(next_ident_if_eq(p, "true"), LAMBDA t :
    IF t.v THEN Ok(t.p, [some |-> TRUE, b |-> TRUE])
    ELSE Let(next_ident_if_eq(t.p, "false"), LAMBDA f :
         IF f.v THEN Ok(f.p, [some |-> TRUE, b |-> FALSE])
         ELSE Ok(f.p, [some |-> FALSE, b |-> FALSE])))

next_int_lit(p) ==
    IF LA(p).k = "Eof" THEN Err("TokenizerError", Peeked(p))
    ELSE IF LA(p).k = "IntLit" THEN Ok(Adv(p), LA(p).n)
    ELSE Err("IncorrectInput", Peeked(p))

\* IndexMap::insert: a new key goes last, a known key keeps its place.
\* A map that keeps every pair it is given.
index_insert_every(fields, n, v) == Append(fields, [n |-> n, v |-> v])

index_insert(fields, n, v) ==
    IF \E i \in 1..Len(fields) : fields[i].n = n
    THEN [i \in 1..Len(fields) |->
            IF fields[i].n = n THEN [n |-> n, v |-> v] ELSE fields[i]]
    ELSE Append(fields, [n |-> n, v |-> v])

next_message_constant_field_name(p) ==
    Let(next_symbol_if_eq(p, "["), LAMBDA b :
    IF b.v
    THEN Let(Call("next_full_ident", <<b.p>>), LAMBDA n :
         IF Failed(n) THEN n
         ELSE Let(next_symbol_if_eq(n.p, "/"), LAMBDA s :
              IF s.v
              THEN Let(Call("next_full_ident", <<s.p>>), LAMBDA f :
                   IF Failed(f) THEN f
                   ELSE Let(next_symbol_expect_eq(f.p, "]"), LAMBDA c :
                        IF Failed(c) THEN c
                        ELSE Ok(c.p, [t |-> "AnyTypeUrl", prefix |-> n.v,
                                      full_type_name |-> f.v])))
              ELSE Let(next_symbol_expect_eq(s.p, "]"), LAMBDA c :
                   IF Failed(c) THEN c
                   ELSE Ok(c.p, [t |-> "Extension", path |-> n.v]))))
    ELSE Let(next_ident(b.p), LAMBDA n :
         IF Failed(n) THEN n ELSE Ok(n.p, [t |-> "Regular", name |-> n.v])))

RECURSIVE next_constant(_), next_message_constant(_), message_constant_loop(_, _),
          next_field_value(_)

next_constant(p) ==
    Let(lookahead_is_symbol(p, "{"), LAMBDA m :
    IF m.v
    THEN Let(Call("next_message_constant", <<m.p>>), LAMBDA mc :
         IF Failed(mc) THEN mc ELSE Ok(mc.p, [t |-> "Message", fields |-> mc.v]))
    ELSE
    Let(Call("next_bool_lit_opt", <<m.p>>), LAMBDA b :
    IF b.v.some THEN Ok(b.p, [t |-> "Bool", b |-> b.v.b])
    ELSE
    IF LA(b.p).k = "Eof" THEN Err("TokenizerError", b.p)
    ELSE
    IF IsSy(LA(b.p), "+") \/ IsSy(LA(b.p), "-")
    THEN Let(IsSy(LA(b.p), "+"), LAMBDA sign :
         Let(Call("next_num_lit", <<Adv(b.p)>>), LAMBDA n :
         IF Failed(n) THEN n
         ELSE Let(to_option_value(n.v, sign), LAMBDA o :
              IF o.err # "None" THEN Err(o.err, n.p) ELSE Ok(n.p, o.v))))
    ELSE
    IF LA(b.p).k = "StrLit" THEN Ok(Adv(b.p), [t |-> "String", s |-> LA(b.p)])
    ELSE
    IF LA(b.p).k \in {"IntLit", "FloatLit"}
    THEN Let(Call("next_num_lit", <<b.p>>), LAMBDA n :
         Let(to_option_value(n.v, TRUE), LAMBDA o :
         IF Failed(n) THEN n
         ELSE IF o.err # "None" THEN Err(o.err, n.p) ELSE Ok(n.p, o.v)))
    ELSE
    IF LA(b.p).k = "Ident"
    THEN Let(Call("next_full_ident", <<b.p>>), LAMBDA i :
         IF Failed(i) THEN i ELSE Ok(i.p, [t |-> "Ident", path |-> i.v]))
    ELSE Err("ExpectConstant", b.p)))

message_constant_loop(p, fields) ==
    Let(lookahead_is_symbol(p, "}"), LAMBDA e :
    IF e.v THEN Ok(e.p, fields)
    ELSE Let(Call("next_message_constant_field_name", <<e.p>>), LAMBDA n :
         IF Failed(n) THEN n
         ELSE Let(Call("next_field_value", <<n.p>>), LAMBDA v :
              IF Failed(v) THEN v
              ELSE Call("message_constant_loop", <<v.p, index_insert(fields, n.v, v.v)>>))))

next_message_constant(p) ==
    Let(next_symbol_expect_eq(p, "{"), LAMBDA o :
    IF Failed(o) THEN o
    ELSE Let(Call("message_constant_loop", <<o.p, <<>>>>), LAMBDA l :
         IF Failed(l) THEN l
         ELSE Let(next_symbol_expect_eq(l.p, "}"), LAMBDA c :
              IF Failed(c) THEN c ELSE Ok(c.p, l.v))))

\* A field value that refuses a nested message after the colon.
next_field_value_no_colon_before_brace(p) ==
    Let(next_symbol_if_eq(p, ":"), LAMBDA c :
    IF c.v
    THEN IF IsSy(LA(c.p), "{") THEN Err("ExpectConstant", c.p)
         ELSE Call("next_constant", <<c.p>>)
    ELSE Let(Call("next_message_constant", <<c.p>>), LAMBDA m :
         IF Failed(m) THEN m ELSE Ok(m.p, [t |-> "Message", fields |-> m.v])))

next_field_value(p) ==
    Let(next_symbol_if_eq(p, ":"), LAMBDA c :
    IF c.v THEN Call("next_constant", <<c.p>>)
    ELSE Let(Call("next_message_constant", <<c.p>>), LAMBDA m :
         IF Failed(m) THEN m ELSE Ok(m.p, [t |-> "Message", fields |-> m.v])))

----------------------------------------------------------------------------
(* Options: src/src/lib.rs 504-548, 613-632 *)

next_option_name_component(p) ==
    Let(next_symbol_if_eq(p, "("), LAMBDA o :
    IF o.v
    THEN Let(Call("next_full_ident", <<o.p>>), LAMBDA comp :
         IF Failed(comp) THEN comp
         ELSE Let(next_symbol_expect_eq(comp.p, ")"), LAMBDA c :
              IF Failed(c) THEN c ELSE Ok(c.p, [t |-> "Ext", n |-> comp.v])))
    ELSE Let(next_ident(o.p), LAMBDA i :
         IF Failed(i) THEN i ELSE Ok(i.p, [t |-> "Direct", n |-> i.v])))

RECURSIVE option_name_loop(_, _)
option_name_loop(p, components) ==
    Let(next_symbol_if_eq(p, "."), LAMBDA d :
    IF ~d.v THEN Ok(d.p, components)
    ELSE Let(Call("next_option_name_component", <<d.p>>), LAMBDA c :
         IF Failed(c) THEN c ELSE Call("option_name_loop", <<c.p, Append(components, c.v)>>)))

\* An option name that is Builtin whenever it has one part.
next_option_name_one_part_builtin(p) ==
    Let(Call("next_option_name_component", <<p>>), LAMBDA c :
    IF Failed(c) THEN c
    ELSE Let(Call("option_name_loop", <<c.p, <<c.v>>>>), LAMBDA l :
         IF Failed(l) THEN l
         ELSE IF Len(l.v) = 1
              THEN Ok(l.p, [t |-> "Builtin", n |-> l.v[1].n])
              ELSE Ok(l.p, [t |-> "Ext", parts |-> l.v])))

next_option_name(p) ==
    Let(Call("next_option_name_component", <<p>>), LAMBDA c :
    IF Failed(c) THEN c
    ELSE Let(Call("option_name_loop", <<c.p, <<c.v>>>>), LAMBDA l :
         IF Failed(l) THEN l
         ELSE IF Len(l.v) = 1 /\ l.v[1].t = "Direct"
              THEN Ok(l.p, [t |-> "Builtin", n |-> l.v[1].n])
              ELSE Ok(l.p, [t |-> "Ext", parts |-> l.v])))

\* optionName "=" constant: next_field_option and next_enum_value_option
next_field_option(p) ==
    Let(Call("next_option_name", <<p>>), LAMBDA name :
    IF Failed(name) THEN name
    ELSE Let(next_symbol_expect_eq(name.p, "="), LAMBDA e :
         IF Failed(e) THEN e
         ELSE Let(Call("next_constant", <<e.p>>), LAMBDA value :
              IF Failed(value) THEN value
              ELSE Ok(value.p, [name |-> name.v, value |-> value.v]))))

next_enum_value_option(p) == Call("next_field_option", <<p>>)

RECURSIVE field_options_loop(_, _)
field_options_loop(p, options) ==
    Let(next_symbol_if_eq(p, ","), LAMBDA c :
    IF ~c.v THEN Ok(c.p, options)
    ELSE Let(Call("next_field_option", <<c.p>>), LAMBDA o :
         IF Failed(o) THEN o ELSE Call("field_options_loop", <<o.p, Append(options, o.v)>>)))

next_field_options(p) ==
    Let(Call("next_field_option", <<p>>), LAMBDA o :
    IF Failed(o) THEN o ELSE Call("field_options_loop", <<o.p, <<o.v>>>>))

next_option_opt(p) ==
    Let(next_ident_if_eq(p, "option"), LAMBDA k :
    IF ~k.v THEN Ok(k.p, [some |-> FALSE])
    ELSE Let(Call("next_field_option", <<k.p>>), LAMBDA o :
         IF Failed(o) THEN o
         ELSE Let(next_symbol_expect_eq(o.p, ";"), LAMBDA s :
              IF Failed(s) THEN s ELSE Ok(s.p, [some |-> TRUE, o |-> o.v]))))

----------------------------------------------------------------------------
(* Fields: src/src/lib.rs 321-331, 550-611, 728-746 *)

\* The characters of the identifiers that may stand as a group name.
Chars(name) ==
    CASE name = "Foo" -> <<"F", "o", "o">>
      [] name = "foo" -> <<"f", "o", "o">>
      [] name = "Ab"  -> <<"A", "b">>
      [] name = "_B"  -> <<"_", "B">>
      [] name = "a"   -> <<"a">>
      [] name = "map" -> <<"m", "a", "p">>
      [] name = "int32" -> <<"i", "n", "t", "3", "2">>
      [] name = "extend" -> <<"e", "x", "t", "e", "n", "d">>
      [] name = "optional" -> <<"o", "p", "t", "i", "o", "n", "a", "l">>
      [] name = "required" -> <<"r", "e", "q", "u", "i", "r", "e", "d">>
      [] name = "repeated" -> <<"r", "e", "p", "e", "a", "t", "e", "d">>

UpperLetters == <<"A", "B", "F">>
LowerLetters == <<"a", "b", "f">>

\* char::is_ascii_uppercase
is_ascii_uppercase(c) == \E i \in 1..Len(UpperLetters) : UpperLetters[i] = c

\* char::to_ascii_lowercase
char_to_ascii_lowercase(c) ==
    IF is_ascii_uppercase(c)
    THEN LowerLetters[CHOOSE i \in 1..Len(UpperLetters) : UpperLetters[i] = c]
    ELSE c

\* A conversion that leaves the name as it is.
to_ascii_lowercase_unchanged(name) == Chars(name)

\* str::to_ascii_lowercase
to_ascii_lowercase(name) ==
    [i \in 1..Len(Chars(name)) |-> char_to_ascii_lowercase(Chars(name)[i])]

\* The name read on the parser itself, not on a clone.
next_group_name_no_clone(p) ==
    Let(next_ident(p), LAMBDA ident :
    IF Failed(ident) THEN ident
    ELSE IF ~is_ascii_uppercase(Chars(ident.v)[1])
         THEN Err("GroupNameShouldStartWithUpperCase", ident.p)
         ELSE Ok(ident.p, ident.v))

\* The name is read on a clone, which replaces the parser only on success.
next_group_name(p) ==
    Let(p, LAMBDA clone :
    Let(next_ident(clone), LAMBDA ident :
    IF Failed(ident) THEN Err(ident.err, p)
    ELSE IF ~is_ascii_uppercase(Chars(ident.v)[1])
         THEN Err("GroupNameShouldStartWithUpperCase", p)
         ELSE Ok(ident.p, ident.v)))

\* One clone per rule of Rule::ALL, in order.
RECURSIVE label_loop(_, _, _)
\* A next_label that probes on the parser itself.
label_loop_no_clone(p, mode, i) ==
    IF i > Len(RuleALL)
    THEN IF some_label_required(mode) THEN Err("LabelRequired", p)
         ELSE Ok(p, "None")
    ELSE Let(next_ident_if_eq(p, as_str(RuleALL[i])), LAMBDA m :
         IF m.v
         THEN IF ~label_allowed(mode, RuleALL[i]) THEN Err("LabelNotAllowed", m.p)
              ELSE Ok(m.p, RuleALL[i])
         ELSE Call("label_loop", <<m.p, mode, i + 1>>))

label_loop(p, mode, i) ==
    IF i > Len(RuleALL)
    THEN IF some_label_required(mode) THEN Err("LabelRequired", p)
         ELSE Ok(p, "None")
    ELSE Let(p, LAMBDA clone :
         Let(next_ident_if_eq(clone, as_str(RuleALL[i])), LAMBDA m :
         IF m.v
         THEN IF ~label_allowed(mode, RuleALL[i]) THEN Err("LabelNotAllowed", p)
              ELSE Ok(m.p, RuleALL[i])
         ELSE Call("label_loop", <<p, mode, i + 1>>)))

next_label(p, mode) == Call("label_loop", <<p, mode, 1>>)

simple == <<"int32", "int64", "uint32", "uint64", "sint32", "sint64", "fixed32",
            "sfixed32", "fixed64", "sfixed64", "bool", "string", "bytes", "float",
            "double">>

RECURSIVE next_field_type(_), next_map_field_type_opt(_)

next_field_type(p) ==
    IF \E i \in 1..Len(simple) : IsId(LA(p), simple[i])
    THEN Ok(Adv(p), [k |-> LA(p).v])
    ELSE Let(Call("next_map_field_type_opt", <<Peeked(p)>>), LAMBDA m :
         IF Failed(m) THEN m
         ELSE IF m.v.some THEN Ok(m.p, m.v.t)
         ELSE Let(Call("next_message_or_enum_type", <<m.p>>), LAMBDA t :
              IF Failed(t) THEN t ELSE Ok(t.p, [k |-> "MessageOrEnum", path |-> t.v])))

next_map_field_type_opt(p) ==
    Let(next_ident_if_eq(p, "map"), LAMBDA m :
    IF ~m.v THEN Ok(m.p, [some |-> FALSE])
    ELSE Let(next_symbol_expect_eq(m.p, "<"), LAMBDA lt :
         IF Failed(lt) THEN lt
         ELSE Let(Call("next_field_type", <<lt.p>>), LAMBDA key :
              IF Failed(key) THEN key
              ELSE Let(next_symbol_expect_eq(key.p, ","), LAMBDA c :
                   IF Failed(c) THEN c
                   ELSE Let(Call("next_field_type", <<c.p>>), LAMBDA value :
                        IF Failed(value) THEN value
                        ELSE Let(next_symbol_expect_eq(value.p, ">"), LAMBDA gt :
                             IF Failed(gt) THEN gt
                             ELSE Ok(gt.p, [some |-> TRUE,
                                            t |-> [k |-> "Map", key |-> key.v,
                                                   value |-> value.v]])))))))

next_field_number(p) ==
    IF LA(p).k = "Eof" THEN Err("TokenizerError", Peeked(p))
    ELSE IF LA(p).k = "IntLit"
         THEN Let(u64_to_i32(LA(p).n), LAMBDA i :
              IF i.err # "None" THEN Err(i.err, Peeked(p)) ELSE Ok(Adv(p), i.v))
         ELSE Err("IncorrectInput", Peeked(p))

----------------------------------------------------------------------------
(* String literals: src/src/lexer/strlit.rs.  The escaped body is the      *)
(* sequence of its characters; decoding yields bytes.                      *)

\* The bytes of the characters string bodies are written with.
ByteOf(c) ==
    CASE c = "p" -> 112 [] c = "r" -> 114 [] c = "o" -> 111 [] c = "t" -> 116
      [] c = "2" -> 50  [] c = "3" -> 51  [] c = "x" -> 120 [] c = "a" -> 97
      [] c = "\\" -> 92

HexVal(c) == CASE c = "2" -> 2 [] c = "3" -> 3 [] c = "a" -> 10 [] OTHER -> -1
OctVal(c) == CASE c = "2" -> 2 [] c = "3" -> 3 [] OTHER -> -1

\* Lexer::next_byte_value (Json mode): one byte of the body, escapes resolved.
next_byte_value(s) ==
    IF s = <<>> THEN [err |-> "LexerError", b |-> 0, rest |-> s]
    ELSE IF Head(s) # "\\" THEN [err |-> "None", b |-> ByteOf(Head(s)), rest |-> Tail(s)]
    ELSE Let(Tail(s), LAMBDA e :
    IF e = <<>> THEN [err |-> "LexerError", b |-> 0, rest |-> e]
    ELSE Let(Head(e), LAMBDA c : Let(Tail(e), LAMBDA r :
    CASE c = "a" -> [err |-> "None", b |-> 7,  rest |-> r]
      [] c = "t" -> [err |-> "None", b |-> 9,  rest |-> r]
      [] c = "r" -> [err |-> "None", b |-> 13, rest |-> r]
      [] c = "x" ->
            IF r = <<>> \/ HexVal(Head(r)) < 0
            THEN [err |-> "LexerError", b |-> 0, rest |-> r]
            ELSE IF Len(r) >= 2 /\ HexVal(r[2]) >= 0
                 THEN [err |-> "None", b |-> HexVal(r[1]) * 16 + HexVal(r[2]),
                       rest |-> Tail(Tail(r))]
                 ELSE [err |-> "None", b |-> HexVal(r[1]), rest |-> Tail(r)]
      [] OctVal(c) >= 0 ->
            IF r # <<>> /\ OctVal(Head(r)) >= 0
            THEN IF Len(r) >= 2 /\ OctVal(r[2]) >= 0
                 THEN [err |-> "None",
                       b |-> OctVal(c) * 64 + OctVal(r[1]) * 8 + OctVal(r[2]),
                       rest |-> Tail(Tail(r))]
                 ELSE [err |-> "None", b |-> OctVal(c) * 8 + OctVal(r[1]), rest |-> Tail(r)]
            ELSE [err |-> "None", b |-> OctVal(c), rest |-> r]
      [] OTHER -> [err |-> "None", b |-> ByteOf(c), rest |-> r])))

RECURSIVE decode_loop(_, _)
decode_loop(s, r) ==
    IF s = <<>> THEN [err |-> "None", v |-> r]
    ELSE Let(next_byte_value(s), LAMBDA b :
         IF b.err # "None" THEN [err |-> "OtherError", v |-> <<>>]
         ELSE decode_loop(b.rest, Append(r, b.b)))

\* StrLit::decode_bytes
decode_bytes(lit) == decode_loop(lit.escaped, <<>>)

\* String::from_utf8 on byte sequences of one- and two-byte characters.
RECURSIVE valid_utf8(_)
valid_utf8(bytes) ==
    IF bytes = <<>> THEN TRUE
    ELSE IF Head(bytes) < 128 THEN valid_utf8(Tail(bytes))
    ELSE IF Head(bytes) >= 194 /\ Head(bytes) < 224
         THEN Len(bytes) >= 2 /\ bytes[2] >= 128 /\ bytes[2] < 192
              /\ valid_utf8(Tail(Tail(bytes)))
         ELSE FALSE

\* A decode_utf8 that takes the bytes as they are.
decode_utf8_unchecked(lit) == decode_loop(lit.escaped, <<>>)

\* StrLit::decode_utf8
decode_utf8(lit) ==
    Let(decode_loop(lit.escaped, <<>>), LAMBDA r :
    IF r.err # "None" THEN r
    ELSE IF valid_utf8(r.v) THEN r ELSE [err |-> "FromUtf8Error", v |-> <<>>])

\* next_str_lit()?.decode_utf8()?
next_str_lit_decoded(p) ==
    Let(next_str_lit(p), LAMBDA l :
    IF Failed(l) THEN l
    ELSE Let(decode_utf8(l.v), LAMBDA d :
         IF d.err # "None" THEN Err("StrLitDecodeError", l.p) ELSE Ok(l.p, d.v)))

----------------------------------------------------------------------------
(* Extensions and reserved: src/src/lib.rs 748-812 *)

\* 0x20000000 - 1
RangeMax == 536870911

\* A range whose `max` is 0x20000000 itself.
next_range_max_exclusive(p) ==
    Let(Call("next_field_number", <<p>>), LAMBDA from :
    IF Failed(from) THEN from
    ELSE Let(next_ident_if_eq(from.p, "to"), LAMBDA t :
         IF t.v
         THEN Let(next_ident_if_eq(t.p, "max"), LAMBDA m :
              IF m.v THEN Ok(m.p, [from |-> from.v, to |-> RangeMax + 1])
              ELSE Let(Call("next_field_number", <<m.p>>), LAMBDA to :
                   IF Failed(to) THEN to ELSE Ok(to.p, [from |-> from.v, to |-> to.v])))
         ELSE Ok(t.p, [from |-> from.v, to |-> from.v])))

next_range(p) ==
    Let(Call("next_field_number", <<p>>), LAMBDA from :
    IF Failed(from) THEN from
    ELSE Let(next_ident_if_eq(from.p, "to"), LAMBDA t :
         IF t.v
         THEN Let(next_ident_if_eq(t.p, "max"), LAMBDA m :
              IF m.v THEN Ok(m.p, [from |-> from.v, to |-> RangeMax])
              ELSE Let(Call("next_field_number", <<m.p>>), LAMBDA to :
                   IF Failed(to) THEN to ELSE Ok(to.p, [from |-> from.v, to |-> to.v])))
         ELSE Ok(t.p, [from |-> from.v, to |-> from.v])))

RECURSIVE ranges_loop(_, _)
ranges_loop(p, ranges) ==
    Let(next_symbol_if_eq(p, ","), LAMBDA c :
    IF ~c.v THEN Ok(c.p, ranges)
    ELSE Let(Call("next_range", <<c.p>>), LAMBDA r :
         IF Failed(r) THEN r ELSE Call("ranges_loop", <<r.p, Append(ranges, r.v)>>)))

next_ranges(p) ==
    Let(Call("next_range", <<p>>), LAMBDA r :
    IF Failed(r) THEN r ELSE Call("ranges_loop", <<r.p, <<r.v>>>>))

next_extensions_opt(p) ==
    Let(next_ident_if_eq(p, "extensions"), LAMBDA k :
    IF ~k.v THEN Ok(k.p, [some |-> FALSE])
    ELSE Let(Call("next_ranges", <<k.p>>), LAMBDA r :
         IF Failed(r) THEN r ELSE Ok(r.p, [some |-> TRUE, ranges |-> r.v])))

RECURSIVE reserved_names_loop(_, _)
reserved_names_loop(p, names) ==
    Let(next_symbol_if_eq(p, ","), LAMBDA c :
    IF ~c.v THEN Ok(c.p, names)
    ELSE Let(Call("next_str_lit_decoded", <<c.p>>), LAMBDA n :
         IF Failed(n) THEN n ELSE Call("reserved_names_loop", <<n.p, Append(names, n.v)>>)))

next_reserved_opt(p) ==
    Let(next_ident_if_eq(p, "reserved"), LAMBDA k :
    IF ~k.v THEN Ok(k.p, [some |-> FALSE])
    ELSE IF LA(k.p).k = "Eof" THEN Err("TokenizerError", Peeked(k.p))
    ELSE Let(IF LA(k.p).k = "StrLit"
                   THEN Let(Call("next_str_lit_decoded", <<k.p>>), LAMBDA n :
                        IF Failed(n) THEN n
                        ELSE Let(Call("reserved_names_loop", <<n.p, <<n.v>>>>), LAMBDA l :
                             IF Failed(l) THEN l
                             ELSE Ok(l.p, [ranges |-> <<>>, names |-> l.v])))
                   ELSE Let(Call("next_ranges", <<k.p>>), LAMBDA r :
                        IF Failed(r) THEN r
                        ELSE Ok(r.p, [ranges |-> r.v, names |-> <<>>])), LAMBDA rn :
             IF Failed(rn) THEN rn
             ELSE Let(next_symbol_expect_eq(rn.p, ";"), LAMBDA s :
                  IF Failed(s) THEN s
                  ELSE Ok(s.p, [some |-> TRUE, ranges |-> rn.v.ranges,
                                names |-> rn.v.names]))))

----------------------------------------------------------------------------
(* Enum definition: src/src/lib.rs 816-911 *)

\* i64::checked_neg
checked_neg(i) == IF i = I64_MIN THEN [some |-> FALSE, v |-> i]
                  ELSE [some |-> TRUE, v |-> i64(~i.neg, i.mag)]

next_enum_value(p) ==
    Let(next_symbol_if_eq(p, "-"), LAMBDA minus :
    Let(Call("next_int_lit", <<minus.p>>), LAMBDA lit :
    IF Failed(lit) THEN lit
    ELSE IF minus.v
    THEN Let(u64_to_i64(lit.v), LAMBDA unsigned :
         IF unsigned.err # "None" THEN Err(unsigned.err, lit.p)
         ELSE IF ~checked_neg(unsigned.v).some THEN Err("IntegerOverflow", lit.p)
         ELSE Let(i64_to_i32(checked_neg(unsigned.v).v), LAMBDA n :
              IF n.err # "None" THEN Err(n.err, lit.p) ELSE Ok(lit.p, n.v)))
    ELSE Let(u64_to_i32(lit.v), LAMBDA n :
         IF n.err # "None" THEN Err(n.err, lit.p) ELSE Ok(lit.p, n.v))))

RECURSIVE enum_value_options_loop(_, _)
enum_value_options_loop(p, options) ==
    Let(next_symbol_if_eq(p, ","), LAMBDA c :
    IF ~c.v THEN Ok(c.p, options)
    ELSE Let(Call("next_enum_value_option", <<c.p>>), LAMBDA o :
         IF Failed(o) THEN o ELSE Call("enum_value_options_loop", <<o.p, Append(options, o.v)>>)))

next_enum_field(p) ==
    Let(next_ident(p), LAMBDA name :
    IF Failed(name) THEN name
    ELSE Let(next_symbol_expect_eq(name.p, "="), LAMBDA e :
    IF Failed(e) THEN e
    ELSE Let(Call("next_enum_value", <<e.p>>), LAMBDA number :
    IF Failed(number) THEN number
    ELSE Let(next_symbol_if_eq(number.p, "["), LAMBDA b :
    IF ~b.v THEN Ok(b.p, [name |-> name.v, number |-> number.v, options |-> <<>>])
    ELSE Let(Call("next_enum_value_option", <<b.p>>), LAMBDA o :
    IF Failed(o) THEN o
    ELSE Let(Call("enum_value_options_loop", <<o.p, <<o.v>>>>), LAMBDA l :
    IF Failed(l) THEN l
    ELSE Let(next_symbol_expect_eq(l.p, "]"), LAMBDA c :
    IF Failed(c) THEN c
    ELSE Ok(c.p, [name |-> name.v, number |-> number.v, options |-> l.v]))))))))

\* The while loop of next_enum_opt; e is the enumeration built so far.
RECURSIVE enum_body_loop(_, _)
enum_body_loop(p, e) ==
    IF IsSy(LA(p), "}") THEN Ok(Peeked(p), e)
    ELSE Let(next_symbol_if_eq(p, ";"), LAMBDA s :
    IF s.v THEN Call("enum_body_loop", <<s.p, e>>)
    ELSE Let(Call("next_reserved_opt", <<s.p>>), LAMBDA r :
    IF Failed(r) THEN r
    ELSE IF r.v.some
    THEN Call("enum_body_loop", <<r.p, [e EXCEPT !.reserved_nums = @ \o r.v.ranges,
                                       !.reserved_names = @ \o r.v.names]>>)
    ELSE Let(Call("next_option_opt", <<r.p>>), LAMBDA o :
    IF Failed(o) THEN o
    ELSE IF o.v.some
    THEN Call("enum_body_loop", <<o.p, [e EXCEPT !.options = Append(@, o.v.o)]>>)
    ELSE Let(Call("next_enum_field", <<o.p>>), LAMBDA f :
    IF Failed(f) THEN f
    ELSE Call("enum_body_loop", <<f.p, [e EXCEPT !.values = Append(@, f.v)]>>)))))

next_enum_opt(p) ==
    Let(lookahead_loc(p), LAMBDA l :
    Let(next_ident_if_eq(p, "enum"), LAMBDA k :
    IF ~k.v THEN Ok(k.p, [some |-> FALSE])
    ELSE Let(next_ident(k.p), LAMBDA name :
    IF Failed(name) THEN name
    ELSE Let(next_symbol_expect_eq(name.p, "{"), LAMBDA o :
    IF Failed(o) THEN o
    ELSE Let(Call("enum_body_loop", <<o.p, [name |-> name.v, values |-> <<>>,
                                       options |-> <<>>, reserved_nums |-> <<>>,
                                       reserved_names |-> <<>>, loc |-> l]>>), LAMBDA b :
    IF Failed(b) THEN b
    ELSE Let(next_symbol_expect_eq(b.p, "}"), LAMBDA c :
    IF Failed(c) THEN c ELSE Ok(c.p, [some |-> TRUE, e |-> b.v])))))))

----------------------------------------------------------------------------
(* Service definition: src/src/lib.rs 1077-1205 *)

\* The while loop of next_options_or_colon.
RECURSIVE options_block_loop(_, _)
options_block_loop(p, options) ==
    IF IsSy(LA(p), "}") THEN Ok(Peeked(p), options)
    ELSE Let(Call("next_option_opt", <<p>>), LAMBDA o :
    IF Failed(o) THEN o
    ELSE IF o.v.some THEN Call("options_block_loop", <<o.p, Append(options, o.v.o)>>)
    ELSE Let(next_symbol_if_eq(o.p, ";"), LAMBDA s :
    IF s.v THEN Call("options_block_loop", <<s.p, options>>)
    ELSE Err("IncorrectInput", s.p)))

next_options_or_colon(p) ==
    Let(next_symbol_if_eq(p, "{"), LAMBDA o :
    IF o.v
    THEN Let(Call("options_block_loop", <<o.p, <<>>>>), LAMBDA l :
         IF Failed(l) THEN l
         ELSE Let(next_symbol_expect_eq(l.p, "}"), LAMBDA c :
              IF Failed(c) THEN c ELSE Ok(c.p, l.v)))
    ELSE Let(next_symbol_expect_eq(o.p, ";"), LAMBDA s :
         IF Failed(s) THEN s ELSE Ok(s.p, <<>>)))

\* A stream method that streams one way only.
next_stream_opt_client_only(p, syn) ==
    IF syn # "Proto2" THEN Err("Panic", p)
    ELSE
    Let(next_ident_if_eq(p, "stream"), LAMBDA k :
    IF ~k.v THEN Ok(k.p, [some |-> FALSE])
    ELSE Let(next_ident(k.p), LAMBDA name :
    IF Failed(name) THEN name
    ELSE Let(next_symbol_expect_eq(name.p, "("), LAMBDA o :
    IF Failed(o) THEN o
    ELSE Let(Call("next_message_or_enum_type", <<o.p>>), LAMBDA input_type :
    IF Failed(input_type) THEN input_type
    ELSE Let(next_symbol_expect_eq(input_type.p, ","), LAMBDA m :
    IF Failed(m) THEN m
    ELSE Let(Call("next_message_or_enum_type", <<m.p>>), LAMBDA output_type :
    IF Failed(output_type) THEN output_type
    ELSE Let(next_symbol_expect_eq(output_type.p, ")"), LAMBDA c :
    IF Failed(c) THEN c
    ELSE Let(Call("next_options_or_colon", <<c.p>>), LAMBDA options :
    IF Failed(options) THEN options
    ELSE Ok(options.p, [some |-> TRUE,
                        m |-> [name |-> name.v, input_type |-> input_type.v,
                               output_type |-> output_type.v,
                               client_streaming |-> TRUE, server_streaming |-> FALSE,
                               options |-> options.v]])))))))))

\* assert_eq!(Syntax::Proto2, self.syntax) panics under the other syntax.
next_stream_opt(p, syn) ==
    IF syn # "Proto2" THEN Err("Panic", p)
    ELSE
    Let(next_ident_if_eq(p, "stream"), LAMBDA k :
    IF ~k.v THEN Ok(k.p, [some |-> FALSE])
    ELSE Let(next_ident(k.p), LAMBDA name :
    IF Failed(name) THEN name
    ELSE Let(next_symbol_expect_eq(name.p, "("), LAMBDA o :
    IF Failed(o) THEN o
    ELSE Let(Call("next_message_or_enum_type", <<o.p>>), LAMBDA input_type :
    IF Failed(input_type) THEN input_type
    ELSE Let(next_symbol_expect_eq(input_type.p, ","), LAMBDA m :
    IF Failed(m) THEN m
    ELSE Let(Call("next_message_or_enum_type", <<m.p>>), LAMBDA output_type :
    IF Failed(output_type) THEN output_type
    ELSE Let(next_symbol_expect_eq(output_type.p, ")"), LAMBDA c :
    IF Failed(c) THEN c
    ELSE Let(Call("next_options_or_colon", <<c.p>>), LAMBDA options :
    IF Failed(options) THEN options
    ELSE Ok(options.p, [some |-> TRUE,
                        m |-> [name |-> name.v, input_type |-> input_type.v,
                               output_type |-> output_type.v,
                               client_streaming |-> TRUE, server_streaming |-> TRUE,
                               options |-> options.v]])))))))))

next_rpc_opt(p) ==
    Let(next_ident_if_eq(p, "rpc"), LAMBDA k :
    IF ~k.v THEN Ok(k.p, [some |-> FALSE])
    ELSE Let(next_ident(k.p), LAMBDA name :
    IF Failed(name) THEN name
    ELSE Let(next_symbol_expect_eq(name.p, "("), LAMBDA o :
    IF Failed(o) THEN o
    ELSE Let(next_ident_if_eq(o.p, "stream"), LAMBDA client_streaming :
         Let(Call("next_message_or_enum_type", <<client_streaming.p>>), LAMBDA input_type :
    IF Failed(input_type) THEN input_type
    ELSE Let(next_symbol_expect_eq(input_type.p, ")"), LAMBDA c :
    IF Failed(c) THEN c
    ELSE Let(next_ident_expect_eq(c.p, "returns"), LAMBDA r :
    IF Failed(r) THEN r
    ELSE Let(next_symbol_expect_eq(r.p, "("), LAMBDA o2 :
    IF Failed(o2) THEN o2
    ELSE Let(next_ident_if_eq(o2.p, "stream"), LAMBDA server_streaming :
         Let(Call("next_message_or_enum_type", <<server_streaming.p>>), LAMBDA output_type :
    IF Failed(output_type) THEN output_type
    ELSE Let(next_symbol_expect_eq(output_type.p, ")"), LAMBDA c2 :
    IF Failed(c2) THEN c2
    ELSE Let(Call("next_options_or_colon", <<c2.p>>), LAMBDA options :
    IF Failed(options) THEN options
    ELSE Ok(options.p, [some |-> TRUE,
                        m |-> [name |-> name.v, input_type |-> input_type.v,
                               output_type |-> output_type.v,
                               client_streaming |-> client_streaming.v,
                               server_streaming |-> server_streaming.v,
                               options |-> options.v]])))))))))))))

\* The while loop of next_service_opt; sv is the service built so far.
RECURSIVE service_body_loop(_, _, _)
\* A service body that looks for a stream method under either syntax.
service_body_loop_any_syntax(p, syn, sv) ==
    IF IsSy(LA(p), "}") THEN Ok(Peeked(p), sv)
    ELSE Let(Call("next_rpc_opt", <<p>>), LAMBDA r :
    IF Failed(r) THEN r
    ELSE IF r.v.some
    THEN Call("service_body_loop", <<r.p, syn, [sv EXCEPT !.methods = Append(@, r.v.m)]>>)
    ELSE Let(Call("next_stream_opt", <<r.p, syn>>), LAMBDA st :
    IF Failed(st) THEN st
    ELSE IF st.v.some
    THEN Call("service_body_loop", <<st.p, syn, [sv EXCEPT !.methods = Append(@, st.v.m)]>>)
    ELSE Let(Call("next_option_opt", <<st.p>>), LAMBDA o :
    IF Failed(o) THEN o
    ELSE IF o.v.some
    THEN Call("service_body_loop", <<o.p, syn, [sv EXCEPT !.options = Append(@, o.v.o)]>>)
    ELSE Let(next_symbol_if_eq(o.p, ";"), LAMBDA s :
    IF s.v THEN Call("service_body_loop", <<s.p, syn, sv>>)
    ELSE Err("IncorrectInput", s.p)))))

service_body_loop(p, syn, sv) ==
    IF IsSy(LA(p), "}") THEN Ok(Peeked(p), sv)
    ELSE Let(Call("next_rpc_opt", <<p>>), LAMBDA r :
    IF Failed(r) THEN r
    ELSE IF r.v.some
    THEN Call("service_body_loop", <<r.p, syn, [sv EXCEPT !.methods = Append(@, r.v.m)]>>)
    ELSE Let(IF syn = "Proto2" THEN Call("next_stream_opt", <<r.p, syn>>)
                   ELSE Ok(r.p, [some |-> FALSE]), LAMBDA st :
    IF Failed(st) THEN st
    ELSE IF st.v.some
    THEN Call("service_body_loop", <<st.p, syn, [sv EXCEPT !.methods = Append(@, st.v.m)]>>)
    ELSE Let(Call("next_option_opt", <<st.p>>), LAMBDA o :
    IF Failed(o) THEN o
    ELSE IF o.v.some
    THEN Call("service_body_loop", <<o.p, syn, [sv EXCEPT !.options = Append(@, o.v.o)]>>)
    ELSE Let(next_symbol_if_eq(o.p, ";"), LAMBDA s :
    IF s.v THEN Call("service_body_loop", <<s.p, syn, sv>>)
    ELSE Err("IncorrectInput", s.p)))))

next_service_opt(p, syn) ==
    Let(lookahead_loc(p), LAMBDA l :
    Let(next_ident_if_eq(p, "service"), LAMBDA k :
    IF ~k.v THEN Ok(k.p, [some |-> FALSE])
    ELSE Let(next_ident(k.p), LAMBDA name :
    IF Failed(name) THEN name
    ELSE Let(next_symbol_expect_eq(name.p, "{"), LAMBDA o :
    IF Failed(o) THEN o
    ELSE Let(Call("service_body_loop", <<o.p, syn, [name |-> name.v, methods |-> <<>>,
                                               options |-> <<>>, loc |-> l]>>), LAMBDA b :
    IF Failed(b) THEN b
    ELSE Let(next_symbol_expect_eq(b.p, "}"), LAMBDA c :
    IF Failed(c) THEN c ELSE Ok(c.p, [some |-> TRUE, s |-> b.v])))))))

----------------------------------------------------------------------------
(* Fields, oneofs, messages, extends: src/src/lib.rs 634-726, 913-1075 *)

\* MessageBody::default()
EmptyBody == [fields |-> <<>>, reserved_nums |-> <<>>, reserved_names |-> <<>>,
              messages |-> <<>>, enums |-> <<>>, options |-> <<>>,
              extension_ranges |-> <<>>, extensions |-> <<>>]

\* A call of next_message_body that has read its `{`: who called it (kind),
\* the mode it runs in, what the caller had parsed before, and the body so far.
Frame(kind, mode, name, rule, number, l) ==
    [kind |-> kind, mode |-> mode, name |-> name, rule |-> rule,
     number |-> number, loc |-> l, extendee |-> <<>>, r |-> EmptyBody, n |-> 0]

\* A mode that does not follow the syntax.
message_mode_proto2(syn) == "MessageProto2"

\* The mode of a message or group body.
message_mode(syn) == IF syn = "Proto2" THEN "MessageProto2" ELSE "MessageProto3"

\* The mode of an extend body.
extend_mode(syn) == IF syn = "Proto2" THEN "ExtendProto2" ELSE "ExtendProto3"

\* next_message_body up to its loop.
next_message_body_open(p, frame) ==
    Let(next_symbol_expect_eq(p, "{"), LAMBDA o :
    IF Failed(o) THEN o ELSE Ok(o.p, [act |-> "open", frame |-> frame]))

\* The rule of next_field: `map` is probed on a clone that is thrown away.
next_field_rule(p, mode) ==
    IF next_ident_if_eq(p, "map").v
    THEN IF ~map_allowed(mode) THEN Err("MapFieldNotAllowed", p) ELSE Ok(p, "None")
    ELSE Call("next_label", <<p, mode>>)

\* next_field, the branch after `group`, up to the group's body.
\* A group whose body is read as the body of a oneof is.
next_field_group_oneof_mode(p, syn, rule, l) ==
    Let(Call("next_group_name", <<p>>), LAMBDA name :
    IF Failed(name) THEN name
    ELSE Let(next_symbol_expect_eq(name.p, "="), LAMBDA e :
    IF Failed(e) THEN e
    ELSE Let(Call("next_field_number", <<e.p>>), LAMBDA number :
    IF Failed(number) THEN number
    ELSE Call("next_message_body_open", <<number.p,
             Frame("group", "Oneof", name.v, rule, number.v, l)>>))))

next_field_group(p, syn, rule, l) ==
    Let(Call("next_group_name", <<p>>), LAMBDA name :
    IF Failed(name) THEN name
    ELSE Let(next_symbol_expect_eq(name.p, "="), LAMBDA e :
    IF Failed(e) THEN e
    ELSE Let(Call("next_field_number", <<e.p>>), LAMBDA number :
    IF Failed(number) THEN number
    ELSE Call("next_message_body_open", <<number.p,
             Frame("group", message_mode(syn), name.v, rule, number.v, l)>>))))

\* next_field, the branch of a field that is no group.
next_field_plain(p, rule, l) ==
    Let(Call("next_field_type", <<p>>), LAMBDA typ :
    IF Failed(typ) THEN typ
    ELSE Let(next_ident(typ.p), LAMBDA name :
    IF Failed(name) THEN name
    ELSE Let(next_symbol_expect_eq(name.p, "="), LAMBDA e :
    IF Failed(e) THEN e
    ELSE Let(Call("next_field_number", <<e.p>>), LAMBDA number :
    IF Failed(number) THEN number
    ELSE Let(next_symbol_if_eq(number.p, "["), LAMBDA b :
         Let(IF b.v THEN Call("next_field_options", <<b.p>>) ELSE Ok(b.p, <<>>), LAMBDA o :
    IF Failed(o) THEN o
    ELSE Let(IF b.v THEN next_symbol_expect_eq(o.p, "]") ELSE Ok(o.p, TRUE), LAMBDA c :
    IF Failed(c) THEN c
    ELSE Let(next_symbol_expect_eq(c.p, ";"), LAMBDA s :
    IF Failed(s) THEN s
    ELSE Ok(s.p, [act |-> "field",
                  field |-> [t |-> "Field", name |-> Chars(name.v), rule |-> rule,
                             typ |-> typ.v, number |-> number.v, options |-> o.v,
                             loc |-> l]])))))))))

next_field(p, mode, syn) ==
    Let(lookahead_loc(p), LAMBDA l :
    Let(Call("next_field_rule", <<p, mode>>), LAMBDA rule :
    IF Failed(rule) THEN rule
    ELSE Let(next_ident_if_eq(rule.p, "group"), LAMBDA g :
         IF g.v THEN Call("next_field_group", <<g.p, syn, rule.v, l>>)
         ELSE Call("next_field_plain", <<g.p, rule.v, l>>))))

\* next_oneof_opt up to the oneof's body.
next_oneof_opt(p, l) ==
    Let(next_ident_if_eq(p, "oneof"), LAMBDA k :
    IF ~k.v THEN Ok(k.p, [act |-> "none"])
    ELSE Let(next_ident(k.p), LAMBDA name :
         IF Failed(name) THEN name
         ELSE Call("next_message_body_open", <<name.p, Frame("oneof", "Oneof", name.v, "None", 0, l)>>)))

\* next_message_opt up to the message's body.
next_message_opt(p, syn) ==
    Let(lookahead_loc(p), LAMBDA l :
    Let(next_ident_if_eq(p, "message"), LAMBDA k :
    IF ~k.v THEN Ok(k.p, [act |-> "none"])
    ELSE Let(next_ident(k.p), LAMBDA name :
         IF Failed(name) THEN name
         ELSE Call("next_message_body_open", <<name.p,
                  Frame("message", message_mode(syn), name.v, "None", 0, l)>>))))

\* next_extend_opt up to the extend's body; `extend` is read on a clone.
next_extend_opt(p, syn) ==
    Let(p, LAMBDA clone :
    Let(next_ident_if_eq(clone, "extend"), LAMBDA k :
    IF ~k.v THEN Ok(p, [act |-> "none"])
    ELSE Let(Call("next_message_or_enum_type", <<k.p>>), LAMBDA extendee :
         IF Failed(extendee) THEN extendee
         ELSE Call("next_message_body_open", <<extendee.p,
                  [Frame("extend", extend_mode(syn), "", "None", 0,
                         lookahead_loc(p)) EXCEPT !.extendee = extendee.v]>>))))

\* The five keywords a body refuses where most non-fields are not allowed.
refuse_non_fields(p) ==
    Let(next_ident_if_eq_error(p, "reserved"), LAMBDA a :
    IF Failed(a) THEN a
    ELSE Let(next_ident_if_eq_error(a.p, "oneof"), LAMBDA b :
    IF Failed(b) THEN b
    ELSE Let(next_ident_if_eq_error(b.p, "extend"), LAMBDA c :
    IF Failed(c) THEN c
    ELSE Let(next_ident_if_eq_error(c.p, "message"), LAMBDA d :
    IF Failed(d) THEN d
    ELSE next_ident_if_eq_error(d.p, "enum")))))

\* next_message_body, lines 965-984: extensions, option, field.
body_iter_fields(p, mode, syn, r) ==
    Let(IF is_extensions_allowed(mode) THEN Call("next_extensions_opt", <<p>>)
             ELSE Let(next_ident_if_eq_error(p, "extensions"), LAMBDA e :
                  IF Failed(e) THEN e ELSE Ok(e.p, [some |-> FALSE])), LAMBDA x :
    IF Failed(x) THEN x
    ELSE IF x.v.some
    THEN Ok(x.p, [act |-> "next", r |-> [r EXCEPT !.extension_ranges = @ \o x.v.ranges]])
    ELSE
    Let(IF is_option_allowed(mode) THEN Call("next_option_opt", <<x.p>>)
             ELSE Let(next_ident_if_eq_error(x.p, "option"), LAMBDA e :
                  IF Failed(e) THEN e ELSE Ok(e.p, [some |-> FALSE])), LAMBDA o :
    IF Failed(o) THEN o
    ELSE IF o.v.some
    THEN Ok(o.p, [act |-> "next", r |-> [r EXCEPT !.options = Append(@, o.v.o)]])
    ELSE
    Let(Call("next_field", <<o.p, mode, syn>>), LAMBDA f :
    IF Failed(f) THEN f
    ELSE IF f.v.act = "open" THEN f
    ELSE Ok(f.p, [act |-> "next", r |-> [r EXCEPT !.fields = Append(@, f.v.field)]]))))

\* next_message_body, lines 930-956: the productions of a message body only.
body_iter_non_fields(p, mode, syn, r) ==
    Let(lookahead_loc(p), LAMBDA l :
    Let(Call("next_reserved_opt", <<p>>), LAMBDA rs :
    IF Failed(rs) THEN rs
    ELSE IF rs.v.some
    THEN Ok(rs.p, [act |-> "next",
                   r |-> [r EXCEPT !.reserved_nums = @ \o rs.v.ranges,
                                   !.reserved_names = @ \o rs.v.names]])
    ELSE Let(Call("next_oneof_opt", <<rs.p, l>>), LAMBDA oo :
    IF Failed(oo) \/ oo.v.act = "open" THEN oo
    ELSE Let(Call("next_extend_opt", <<oo.p, syn>>), LAMBDA ex :
    IF Failed(ex) \/ ex.v.act = "open" THEN ex
    ELSE Let(Call("next_message_opt", <<ex.p, syn>>), LAMBDA ms :
    IF Failed(ms) \/ ms.v.act = "open" THEN ms
    ELSE Let(Call("next_enum_opt", <<ms.p>>), LAMBDA en :
    IF Failed(en) THEN en
    ELSE IF en.v.some
    THEN Ok(en.p, [act |-> "next", r |-> [r EXCEPT !.enums = Append(@, en.v.e)]])
    ELSE Call("body_iter_fields", <<en.p, mode, syn, r>>)))))))

\* One iteration of the loop of next_message_body, or its end at `}`.
\* A body's loop that takes the end of input for an empty statement.
next_message_body_iter_eof_skipped(p, mode, syn, r) ==
    IF IsSy(LA(p), "}")
    THEN Let(next_symbol_expect_eq(Peeked(p), "}"), LAMBDA c :
         IF Failed(c) THEN c ELSE Ok(c.p, [act |-> "close", r |-> r]))
    ELSE IF LA(p).k = "Eof" THEN Ok(Peeked(p), [act |-> "next", r |-> r])
    ELSE Let(next_symbol_if_eq(p, ";"), LAMBDA s :
    IF s.v THEN Ok(s.p, [act |-> "next", r |-> r])
    ELSE IF is_most_non_fields_allowed(mode)
    THEN Call("body_iter_non_fields", <<s.p, mode, syn, r>>)
    ELSE Let(Call("refuse_non_fields", <<s.p>>), LAMBDA e :
         IF Failed(e) THEN e ELSE Call("body_iter_fields", <<e.p, mode, syn, r>>)))

next_message_body_iter(p, mode, syn, r) ==
    IF IsSy(LA(p), "}")
    THEN Let(next_symbol_expect_eq(Peeked(p), "}"), LAMBDA c :
         IF Failed(c) THEN c ELSE Ok(c.p, [act |-> "close", r |-> r]))
    ELSE Let(next_symbol_if_eq(p, ";"), LAMBDA s :
    IF s.v THEN Ok(s.p, [act |-> "next", r |-> r])
    ELSE IF is_most_non_fields_allowed(mode)
    THEN Call("body_iter_non_fields", <<s.p, mode, syn, r>>)
    ELSE Let(Call("refuse_non_fields", <<s.p>>), LAMBDA e :
         IF Failed(e) THEN e ELSE Call("body_iter_fields", <<e.p, mode, syn, r>>)))

\* fields.into_iter().map(..).collect(): the fields, or the error of the
\* caller when one of them is a oneof.
HasOneOf(fields) == \E i \in 1..Len(fields) : fields[i].t = "OneOf"

\* next_oneof_opt after the body.
oneof_finish(frame) ==
    IF HasOneOf(frame.r.fields) THEN [err |-> "OneOfInOneOf", v |-> NoVal]
    ELSE [err |-> "None",
          v |-> [t |-> "OneOf", name |-> frame.name, fields |-> frame.r.fields,
                 options |-> frame.r.options, loc |-> frame.loc]]

\* next_field after the body of a group.
\* A group that keeps whatever its body holds.
group_finish_unchecked(frame) ==
    [err |-> "None",
     v |-> [t |-> "Field", name |-> to_ascii_lowercase(frame.name),
            rule |-> frame.rule,
            typ |-> [k |-> "Group", name |-> Chars(frame.name),
                     fields |-> frame.r.fields],
            number |-> frame.number, options |-> <<>>, loc |-> frame.loc]]

group_finish(frame) ==
    IF HasOneOf(frame.r.fields) THEN [err |-> "OneOfInGroup", v |-> NoVal]
    ELSE [err |-> "None",
          v |-> [t |-> "Field", name |-> to_ascii_lowercase(frame.name),
                 rule |-> frame.rule,
                 typ |-> [k |-> "Group", name |-> Chars(frame.name),
                          fields |-> frame.r.fields],
                 number |-> frame.number, options |-> <<>>, loc |-> frame.loc]]

\* next_message_opt after the body.
message_finish(frame) ==
    [err |-> "None",
     v |-> [name |-> frame.name, loc |-> frame.loc] @@ frame.r]

\* next_extend_opt after the body.
extend_finish(frame) ==
    IF HasOneOf(frame.r.fields) THEN [err |-> "OneOfInExtend", v |-> NoVal]
    ELSE [err |-> "None",
          v |-> [i \in 1..Len(frame.r.fields) |->
                    [extendee |-> frame.extendee, field |-> frame.r.fields[i],
                     loc |-> frame.r.fields[i].loc]]]

----------------------------------------------------------------------------
(* The file: src/src/lib.rs 448-502, 1207-1272 *)

proto2 == <<"p", "r", "o", "t", "o", "2">>
proto3 == <<"p", "r", "o", "t", "o", "3">>

\* The bytes of "proto2" and "proto3".
proto2_bytes == <<112, 114, 111, 116, 111, 50>>
proto3_bytes == <<112, 114, 111, 116, 111, 51>>

next_syntax(p) ==
    Let(next_ident_if_eq(p, "syntax"), LAMBDA k :
    IF ~k.v THEN Ok(k.p, [some |-> FALSE])
    ELSE Let(next_symbol_expect_eq(k.p, "="), LAMBDA e :
    IF Failed(e) THEN e
    ELSE Let(Call("next_str_lit_decoded", <<e.p>>), LAMBDA syntax_str :
    IF Failed(syntax_str) THEN syntax_str
    ELSE IF syntax_str.v # proto2_bytes /\ syntax_str.v # proto3_bytes
    THEN Err("UnknownSyntax", syntax_str.p)
    ELSE Let(next_symbol_expect_eq(syntax_str.p, ";"), LAMBDA s :
    IF Failed(s) THEN s
    ELSE Ok(s.p, [some |-> TRUE,
                  syntax |-> IF syntax_str.v = proto2_bytes THEN "Proto2" ELSE "Proto3"])))))

\* ProtoPathBuf::new: an import path is refused when it is empty or holds
\* a backslash.
ProtoPathBuf_new(path) ==
    IF path = <<>> \/ \E i \in 1..Len(path) : path[i] = 92
    THEN [err |-> "ProtoPathError", v |-> <<>>]
    ELSE [err |-> "None", v |-> path]

next_import_opt(p) ==
    Let(next_ident_if_eq(p, "import"), LAMBDA k :
    IF ~k.v THEN Ok(k.p, [some |-> FALSE])
    ELSE Let(next_ident_if_eq(k.p, "weak"), LAMBDA w :
         Let(IF w.v THEN w ELSE next_ident_if_eq(w.p, "public"), LAMBDA u :
         Let(IF w.v THEN "Weak" ELSE IF u.v THEN "Public" ELSE "Default", LAMBDA vis :
         Let(Call("next_str_lit_decoded", <<u.p>>), LAMBDA path :
    IF Failed(path) THEN path
    ELSE Let(next_symbol_expect_eq(path.p, ";"), LAMBDA s :
    IF Failed(s) THEN s
    ELSE IF ProtoPathBuf_new(path.v).err # "None"
    THEN Err(ProtoPathBuf_new(path.v).err, s.p)
    ELSE Ok(s.p, [some |-> TRUE, i |-> [path |-> path.v, vis |-> vis]])))))))

\* ProtobufRelPath::into_absolute
into_absolute(path) == <<".">> \o path

next_package_opt(p) ==
    Let(next_ident_if_eq(p, "package"), LAMBDA k :
    IF ~k.v THEN Ok(k.p, [some |-> FALSE])
    ELSE Let(Call("next_full_ident_rel", <<k.p>>), LAMBDA package :
    IF Failed(package) THEN package
    ELSE Let(next_symbol_expect_eq(package.p, ";"), LAMBDA s :
    IF Failed(s) THEN s
    ELSE Ok(s.p, [some |-> TRUE, package |-> into_absolute(package.v)]))))

\* The accumulators of next_proto before its loop; ProtobufAbsPath::root().
EmptyFile == [imports |-> <<>>, package |-> <<>>, messages |-> <<>>, enums |-> <<>>,
              extensions |-> <<>>, options |-> <<>>, services |-> <<>>]

\* The body of the loop of next_proto, lines 1220-1259.
next_proto_statement(p, syn, f) ==
    Let(Call("next_import_opt", <<p>>), LAMBDA im :
    IF Failed(im) THEN im
    ELSE IF im.v.some
    THEN Ok(im.p, [act |-> "next", f |-> [f EXCEPT !.imports = Append(@, im.v.i)]])
    ELSE Let(Call("next_package_opt", <<im.p>>), LAMBDA pk :
    IF Failed(pk) THEN pk
    ELSE IF pk.v.some
    THEN Ok(pk.p, [act |-> "next", f |-> [f EXCEPT !.package = pk.v.package]])
    ELSE Let(Call("next_option_opt", <<pk.p>>), LAMBDA op :
    IF Failed(op) THEN op
    ELSE IF op.v.some
    THEN Ok(op.p, [act |-> "next", f |-> [f EXCEPT !.options = Append(@, op.v.o)]])
    ELSE Let(Call("next_message_opt", <<op.p, syn>>), LAMBDA ms :
    IF Failed(ms) \/ ms.v.act = "open" THEN ms
    ELSE Let(Call("next_enum_opt", <<ms.p>>), LAMBDA en :
    IF Failed(en) THEN en
    ELSE IF en.v.some
    THEN Ok(en.p, [act |-> "next", f |-> [f EXCEPT !.enums = Append(@, en.v.e)]])
    ELSE Let(Call("next_extend_opt", <<en.p, syn>>), LAMBDA ex :
    IF Failed(ex) \/ ex.v.act = "open" THEN ex
    ELSE Let(Call("next_service_opt", <<ex.p, syn>>), LAMBDA sv :
    IF Failed(sv) THEN sv
    ELSE IF sv.v.some
    THEN Ok(sv.p, [act |-> "next", f |-> [f EXCEPT !.services = Append(@, sv.v.s)]])
    ELSE Let(next_symbol_if_eq(sv.p, ";"), LAMBDA s :
    IF s.v THEN Ok(s.p, [act |-> "next", f |-> f])
    ELSE Err("IncorrectInput", s.p)))))))))

\* A loop that takes a syntax statement wherever it stands.
next_proto_iter_any_syntax(p, syn, f) ==
    IF LA(p).k = "Eof" THEN Ok(Peeked(p), [act |-> "eof"])
    ELSE IF IsId(LA(p), "syntax")
    THEN Let(Call("next_syntax", <<p>>), LAMBDA sy :
         IF Failed(sy) THEN sy ELSE Ok(sy.p, [act |-> "next", f |-> f]))
    ELSE Call("next_proto_statement", <<p, syn, f>>)

\* One iteration of the loop of next_proto, or its end at the end of input.
next_proto_iter(p, syn, f) ==
    IF LA(p).k = "Eof" THEN Ok(Peeked(p), [act |-> "eof"])
    ELSE Call("next_proto_statement", <<p, syn, f>>)

\* The caller of a body that has ended takes what the body's owner made of it:
\* the enclosing body r, or the file f at the top level.
deliver_body(r, kind, v) ==
    CASE kind \in {"oneof", "group"} -> [r EXCEPT !.fields = Append(@, v)]
      [] kind = "message"            -> [r EXCEPT !.messages = Append(@, v)]
      [] kind = "extend"             -> [r EXCEPT !.extensions = @ \o v]

deliver_file(f, kind, v) ==
    CASE kind = "message" -> [f EXCEPT !.messages = Append(@, v)]
      [] kind = "extend"  -> [f EXCEPT !.extensions = @ \o v]

finish(frame) ==
    CASE frame.kind = "oneof"   -> oneof_finish(frame)
      [] frame.kind = "group"   -> group_finish(frame)
      [] frame.kind = "message" -> message_finish(frame)
      [] frame.kind = "extend"  -> extend_finish(frame)

----------------------------------------------------------------------------
(* Parser method calls: the method named n applied to the arguments a.     *)

Call(n, a) ==
    CASE n = "full_ident_loop" -> full_ident_loop(a[1], a[2])
      [] n = "next_full_ident" -> next_full_ident(a[1])
      [] n = "next_full_ident_rel" -> next_full_ident_rel(a[1])
      [] n = "next_message_or_enum_type" -> next_message_or_enum_type(a[1])
      [] n = "next_num_lit" -> next_num_lit(a[1])
      [] n = "next_bool_lit_opt" -> next_bool_lit_opt(a[1])
      [] n = "next_int_lit" -> next_int_lit(a[1])
      [] n = "next_message_constant_field_name" -> next_message_constant_field_name(a[1])
      [] n = "next_constant" -> next_constant(a[1])
      [] n = "message_constant_loop" -> message_constant_loop(a[1], a[2])
      [] n = "next_message_constant" -> next_message_constant(a[1])
      [] n = "next_field_value" -> next_field_value(a[1])
      [] n = "next_option_name_component" -> next_option_name_component(a[1])
      [] n = "option_name_loop" -> option_name_loop(a[1], a[2])
      [] n = "next_option_name" -> next_option_name(a[1])
      [] n = "next_field_option" -> next_field_option(a[1])
      [] n = "next_enum_value_option" -> next_enum_value_option(a[1])
      [] n = "field_options_loop" -> field_options_loop(a[1], a[2])
      [] n = "next_field_options" -> next_field_options(a[1])
      [] n = "next_option_opt" -> next_option_opt(a[1])
      [] n = "next_group_name" -> next_group_name(a[1])
      [] n = "label_loop" -> label_loop(a[1], a[2], a[3])
      [] n = "next_label" -> next_label(a[1], a[2])
      [] n = "next_field_type" -> next_field_type(a[1])
      [] n = "next_map_field_type_opt" -> next_map_field_type_opt(a[1])
      [] n = "next_field_number" -> next_field_number(a[1])
      [] n = "next_str_lit_decoded" -> next_str_lit_decoded(a[1])
      [] n = "next_range" -> next_range(a[1])
      [] n = "ranges_loop" -> ranges_loop(a[1], a[2])
      [] n = "next_ranges" -> next_ranges(a[1])
      [] n = "next_extensions_opt" -> next_extensions_opt(a[1])
      [] n = "reserved_names_loop" -> reserved_names_loop(a[1], a[2])
      [] n = "next_reserved_opt" -> next_reserved_opt(a[1])
      [] n = "next_enum_value" -> next_enum_value(a[1])
      [] n = "enum_value_options_loop" -> enum_value_options_loop(a[1], a[2])
      [] n = "next_enum_field" -> next_enum_field(a[1])
      [] n = "enum_body_loop" -> enum_body_loop(a[1], a[2])
      [] n = "next_enum_opt" -> next_enum_opt(a[1])
      [] n = "options_block_loop" -> options_block_loop(a[1], a[2])
      [] n = "next_options_or_colon" -> next_options_or_colon(a[1])
      [] n = "next_stream_opt" -> next_stream_opt(a[1], a[2])
      [] n = "next_rpc_opt" -> next_rpc_opt(a[1])
      [] n = "service_body_loop" -> service_body_loop(a[1], a[2], a[3])
      [] n = "next_service_opt" -> next_service_opt(a[1], a[2])
      [] n = "next_message_body_open" -> next_message_body_open(a[1], a[2])
      [] n = "next_field_rule" -> next_field_rule(a[1], a[2])
      [] n = "next_field_group" -> next_field_group(a[1], a[2], a[3], a[4])
      [] n = "next_field_plain" -> next_field_plain(a[1], a[2], a[3])
      [] n = "next_field" -> next_field(a[1], a[2], a[3])
      [] n = "next_oneof_opt" -> next_oneof_opt(a[1], a[2])
      [] n = "next_message_opt" -> next_message_opt(a[1], a[2])
      [] n = "next_extend_opt" -> next_extend_opt(a[1], a[2])
      [] n = "refuse_non_fields" -> refuse_non_fields(a[1])
      [] n = "body_iter_fields" -> body_iter_fields(a[1], a[2], a[3], a[4])
      [] n = "body_iter_non_fields" -> body_iter_non_fields(a[1], a[2], a[3], a[4])
      [] n = "next_message_body_iter" -> next_message_body_iter(a[1], a[2], a[3], a[4])
      [] n = "next_syntax" -> next_syntax(a[1])
      [] n = "next_import_opt" -> next_import_opt(a[1])
      [] n = "next_package_opt" -> next_package_opt(a[1])
      [] n = "next_proto_statement" -> next_proto_statement(a[1], a[2], a[3])
      [] n = "next_proto_iter" -> next_proto_iter(a[1], a[2], a[3])

----------------------------------------------------------------------------
(* The inputs: the pieces of token stream a step may be given.             *)

SyntaxStmt(e) == <<Ident("syntax"), Symbol("="), StrLit(e), Symbol(";")>>

\* String bodies: proto2, proto3, an unknown syntax, proto3 with its last
\* character written as a hex escape, and a body that does not decode.
proto   == <<"p", "r", "o", "t", "o">>
proto3x == <<"p", "r", "o", "t", "o", "\\", "x", "3", "3">>
badesc  == <<"p", "\\">>

HeaderInputs ==
    {<<>>}
    \cup {SyntaxStmt(e) : e \in {proto2, proto3, proto, proto3x, badesc}}
    \cup {<<Ident("syntax"), Symbol("="), StrLit(proto3)>>,
          <<Ident("syntax"), Symbol("="), Ident("proto3"), Symbol(";")>>}

TopInputs ==
    {<<>>, <<Symbol(";")>>, <<Symbol("}")>>,
     SyntaxStmt(proto2), SyntaxStmt(proto3),
     <<Ident("import"), StrLit(proto), Symbol(";")>>,
     <<Ident("package"), Ident("a"), Symbol(";")>>,
     <<Ident("option"), Ident("a"), Symbol("="), IntLit(small(1)), Symbol(";")>>,
     <<Ident("message"), Ident("Foo"), Symbol("{")>>,
     <<Ident("enum"), Ident("Foo"), Symbol("{"), Symbol("}")>>,
     <<Ident("extend"), Ident("Foo"), Symbol("{")>>,
     <<Ident("service"), Ident("Foo"), Symbol("{"), Symbol("}")>>,
     <<Ident("enum"), Ident("Foo"), Symbol("{"), Symbol(";")>>,
     <<Ident("service"), Ident("Foo"), Symbol("{"), Symbol(";")>>,
     <<Ident("service"), Ident("Foo"), Symbol("{"), Ident("stream"), Ident("a"),
       Symbol("("), Ident("Foo"), Symbol(","), Ident("Foo"), Symbol(")"), Symbol(";"),
       Symbol("}")>>,
     <<Ident("option"), Ident("a"), Symbol("="), Symbol("{"), Ident("a"), Symbol(":"),
       IntLit(small(1))>>,
     <<Ident("int32"), Ident("a")>>}

LabelInputs == {<<>>, <<Ident("optional")>>, <<Ident("repeated")>>, <<Ident("required")>>}

MapInput ==
    <<Ident("map"), Symbol("<"), Ident("int32"), Symbol(","), Ident("Foo"), Symbol(">")>>

FieldEnd == <<Ident("a"), Symbol("="), IntLit(small(1)), Symbol(";")>>

\* Every label before a scalar type; a message type and a map type without
\* a label; a map type after a label.
FieldInputs ==
    {l \o <<Ident("int32")>> \o FieldEnd : l \in LabelInputs}
    \cup {<<Ident("Foo")>> \o FieldEnd, MapInput \o FieldEnd,
          <<Ident("optional")>> \o MapInput \o FieldEnd}

GroupInput(n) == <<Ident("group"), Ident(n), Symbol("="), IntLit(small(1)), Symbol("{")>>

\* Every label before a well-named group; other names without a label.
GroupInputs ==
    {l \o GroupInput("Foo") : l \in LabelInputs}
    \cup {GroupInput("foo"), GroupInput("Ab"), GroupInput("_B"),
          <<Ident("optional")>> \o GroupInput("foo")}

KeywordInputs ==
    {<<Ident("reserved"), IntLit(small(1)), Symbol(";")>>,
     <<Ident("oneof"), Ident("a"), Symbol("{")>>,
     <<Ident("extend"), Ident("Foo"), Symbol("{")>>,
     <<Ident("message"), Ident("Foo"), Symbol("{")>>,
     <<Ident("enum"), Ident("Foo"), Symbol("{"), Symbol("}")>>,
     <<Ident("extensions"), IntLit(small(1))>>,
     <<Ident("option"), Ident("a"), Symbol("="), IntLit(small(1)), Symbol(";")>>}

BadInputs ==
    {<<Ident("int32"), Ident("a"), Symbol("="), IntLit(small(1)), Symbol("}")>>,
     <<Ident("map"), Ident("a")>>,
     <<Ident("optional"), Symbol("=")>>,
     <<IntLit(small(1))>>}

BodyInputs ==
    {<<>>, <<Symbol(";")>>, <<Symbol("}")>>}
    \cup FieldInputs \cup GroupInputs \cup KeywordInputs \cup BadInputs

----------------------------------------------------------------------------
(* The parse as a state machine *)

\* The parser about to read the piece ts.
Reading(ts) == [ts |-> ts, pos |-> tk.pos, lexed |-> tk.lexed]

\* A step reads its piece to the end, unless it fails before.
Whole(r) == IF Failed(r) THEN TRUE ELSE r.p.ts = <<>>

\* A step that parses one more statement has room for it among the n parsed.
Room(r, n) == IF Failed(r) THEN TRUE
              ELSE IF r.v.act \in {"eof", "close"} THEN TRUE ELSE n < MaxItems

Fits(ts) == tk.pos + Len(ts) <= MaxTokens

\* The error leaves next_proto: what was parsed so far is dropped.
Fail(r) ==
    /\ pc' = "failed"
    /\ err' = r.err
    /\ tk' = [pos |-> r.p.pos, lexed |-> r.p.lexed]
    /\ stack' = <<>>
    /\ file' = EmptyFile
    /\ UNCHANGED <<syntax, decls, result>>

\* Parser::new
Init ==
    /\ pc = "start"
    /\ syntax = "Proto2"
    /\ tk = [pos |-> 0, lexed |-> 0]
    /\ stack = <<>>
    /\ file = EmptyFile
    /\ err = "None"
    /\ stmt = [toks |-> <<>>, mode |-> "None", start |-> 0]
    /\ decls = 0
    /\ result = [t |-> "None"]

\* The header read from the piece ts, r being what next_syntax returned.
HeaderRead(ts, r) ==
    /\ Fits(ts) /\ Whole(r)
    /\ stmt' = [toks |-> ts, mode |-> "Header", start |-> tk.pos]
    /\ IF Failed(r) THEN Fail(r)
       ELSE /\ syntax' = IF r.v.some THEN r.v.syntax ELSE "Proto2"
            /\ pc' = "top"
            /\ tk' = [pos |-> r.p.pos, lexed |-> r.p.lexed]
            /\ UNCHANGED <<stack, file, err, decls, result>>

\* next_proto, lines 1208-1217
Header ==
    /\ pc = "start"
    /\ \E ts \in HeaderInputs : HeaderRead(ts, Call("next_syntax", <<Reading(ts)>>))

\* next_proto, one turn of the loop at lines 1219-1260.  The token the header
\* looked at and left is not `syntax`.
TopRead(ts, r) ==
    /\ Fits(ts) /\ Whole(r)
    /\ ~(tk.pos = 0 /\ ts # <<>> /\ IsId(Head(ts), "syntax"))
    /\ Room(r, decls)
    /\ stmt' = [toks |-> ts, mode |-> "Top", start |-> tk.pos]
    /\ IF Failed(r) THEN Fail(r)
       ELSE /\ tk' = [pos |-> r.p.pos, lexed |-> r.p.lexed]
            /\ pc' = CASE r.v.act = "eof" -> "parsed"
                       [] r.v.act = "open" -> "body"
                       [] OTHER -> "top"
            /\ file' = IF r.v.act = "next" THEN r.v.f ELSE file
            /\ stack' = IF r.v.act = "open" THEN <<r.v.frame>> ELSE stack
            /\ decls' = IF r.v.act = "eof" THEN decls ELSE decls + 1
            /\ UNCHANGED <<syntax, err, result>>

TopStep ==
    /\ pc = "top"
    /\ \E ts \in TopInputs :
         TopRead(ts, Call("next_proto_iter", <<Reading(ts), syntax, file>>))

\* next_message_body, one turn of the loop at lines 922-985 of the innermost
\* open body, or its end and the return to its caller.
\* The innermost of the n open bodies, frame, read the piece ts: r is what
\* the turn of its loop returned and done what the body comes to at its end.
BodyRead(ts, n, frame, r, done) ==
    /\ Fits(ts) /\ Whole(r)
    /\ Room(r, frame.n)
    /\ stmt' = [toks |-> ts, mode |-> frame.mode, start |-> tk.pos]
    /\ IF Failed(r) THEN Fail(r)
       ELSE IF r.v.act = "close" /\ done.err # "None"
       THEN Fail(Err(done.err, r.p))
       ELSE /\ tk' = [pos |-> r.p.pos, lexed |-> r.p.lexed]
            /\ stack' =
                 CASE r.v.act = "next" ->
                        [stack EXCEPT ![n].r = r.v.r, ![n].n = @ + 1]
                   [] r.v.act = "open" ->
                        Append([stack EXCEPT ![n].n = @ + 1], r.v.frame)
                   [] r.v.act = "close" ->
                        IF n = 1 THEN <<>>
                        ELSE [SubSeq(stack, 1, n - 1) EXCEPT
                                ![n - 1].r = deliver_body(@, frame.kind, done.v)]
            /\ file' = IF r.v.act = "close" /\ n = 1
                       THEN deliver_file(file, frame.kind, done.v) ELSE file
            /\ pc' = IF r.v.act = "close" /\ n = 1 THEN "top" ELSE "body"
            /\ UNCHANGED <<syntax, err, decls, result>>

BodyFrame(ts, n, frame) ==
    BodyRead(ts, n, frame,
             Call("next_message_body_iter", <<Reading(ts), frame.mode, syntax, frame.r>>),
             finish(frame))

BodyStep ==
    /\ pc = "body"
    /\ \E ts \in BodyInputs : BodyFrame(ts, Len(stack), stack[Len(stack)])

\* FileDescriptor::parse, after next_proto has returned
ParseReturn ==
    /\ pc \in {"parsed", "failed"}
    /\ pc' = "returned"
    /\ result' = IF pc = "parsed"
                 THEN [t |-> "Ok", syntax |-> syntax] @@ file
                 ELSE [t |-> "Err", error |-> err,
                       line |-> loc(tk).line, col |-> loc(tk).col]
    /\ UNCHANGED <<syntax, tk, stack, file, err, stmt, decls>>

Next == Header \/ TopStep \/ BodyStep \/ ParseReturn

Spec == Init /\ [][Next]_vars

\* The guard of BodyStep: ENABLED <<BodyStep>>_vars, written out.
BodyStepEnabled ==
    /\ pc = "body"
    /\ \E ts \in BodyInputs :
         Let(Call("next_message_body_iter",
                  <<Reading(ts), stack[Len(stack)].mode, syntax, stack[Len(stack)].r>>),
             LAMBDA r : Fits(ts) /\ Whole(r) /\ Room(r, stack[Len(stack)].n))

\* The parser is one thread that runs until parse returns: a step that can be
\* taken is taken.  The last conjunct is WF_vars(BodyStep) with its ENABLED
\* replaced by the guard.
LiveSpec ==
    /\ Spec
    /\ WF_vars(Header) /\ WF_vars(TopStep) /\ WF_vars(ParseReturn)
    /\ ([]<>(~BodyStepEnabled) \/ []<><<BodyStep>>_vars)

----------------------------------------------------------------------------
(* What the properties below speak of *)

\* The last piece read starts with the identifier w.
First(w) == stmt.toks # <<>> /\ IsId(Head(stmt.toks), w)

\* The last piece was read by the loop of a body in mode m.
InBody == stmt.mode \in Modes

\* The last step raised no error.
Accepted == err = "None"

LabelWords == {"optional", "repeated", "required"}
KeywordWords == {"reserved", "oneof", "extend", "message", "enum", "extensions", "option"}

\* The last piece is a body statement that came to next_field: it is neither
\* the end of the body, nor empty, nor one of the keyword productions.
AtField ==
    /\ InBody
    /\ stmt.toks # <<>> =>
         /\ ~IsSy(Head(stmt.toks), "}") /\ ~IsSy(Head(stmt.toks), ";")
         /\ \A w \in KeywordWords : ~IsId(Head(stmt.toks), w)

\* The last piece opened a body.
Opened == stmt.toks # <<>> /\ IsSy(stmt.toks[Len(stmt.toks)], "{")

\* The field the last statement made: the group whose body it opened, or the
\* field it added to the innermost body.
NewField ==
    LET top == stack[Len(stack)] IN
    IF Opened THEN [rule |-> top.rule, typ |-> [k |-> "Group"]]
    ELSE top.r.fields[Len(top.r.fields)]

\* The fields below a sequence of fields and oneofs, each with the place it
\* stands in: "oneof" for the members of a oneof, "body" for the fields of a
\* message, group or extend body.
RECURSIVE Tagged(_, _)
Tagged(entries, place) ==
    UNION {IF e.t = "OneOf" THEN Tagged(e.fields, "oneof")
           ELSE {[f |-> e, in |-> place]}
                \cup (IF e.typ.k = "Group" THEN Tagged(e.typ.fields, "body") ELSE {})
           : e \in {entries[i] : i \in 1..Len(entries)}}

\* The same for the fields of extensions.
TaggedExtensions(extensions) ==
    Tagged([i \in 1..Len(extensions) |-> extensions[i].field], "body")

\* The same for messages, nested messages and their extensions too.
RECURSIVE TaggedMessages(_)
TaggedMessages(messages) ==
    UNION {Tagged(m.fields, "body") \cup TaggedMessages(m.messages)
           \cup TaggedExtensions(m.extensions)
           : m \in {messages[i] : i \in 1..Len(messages)}}

\* Every field parsed so far: in the bodies that are open and in the file.
AllTagged ==
    UNION {Tagged(stack[j].r.fields, IF stack[j].kind = "oneof" THEN "oneof" ELSE "body")
           \cup TaggedMessages(stack[j].r.messages)
           \cup TaggedExtensions(stack[j].r.extensions)
           : j \in 1..Len(stack)}
    \cup TaggedMessages(file.messages)
    \cup TaggedExtensions(file.extensions)

----------------------------------------------------------------------------
(* C1: the keywords a mode forbids *)

C1_Forbidden(M) ==
    (IF M \in {"Oneof", "ExtendProto2", "ExtendProto3"}
     THEN {"reserved", "oneof", "extend", "message", "enum"} ELSE {})
    \cup (IF M # "MessageProto2" THEN {"extensions"} ELSE {})
    \cup (IF M \in {"ExtendProto2", "ExtendProto3"} THEN {"option"} ELSE {})

\* C1: in every body mode, a statement that starts with a keyword the mode
\* forbids makes the parse fail: it is not accepted, and nothing of the
\* bodies that were open is kept.
C1_ForbiddenKeywordFails ==
    InBody =>
      \A K \in C1_Forbidden(stmt.mode) :
        First(K) => /\ ~Accepted
                    /\ pc \in {"failed", "returned"}
                    /\ stack = <<>>

\* An `option` statement, which reads as a field, has failed in a proto3
\* extend body.
C1_Witness ==
    /\ stmt.mode = "ExtendProto3"
    /\ stmt.toks = <<Ident("option"), Ident("a"), Symbol("="), IntLit(small(1)),
                     Symbol(";")>>
    /\ pc = "failed"

----------------------------------------------------------------------------
(* C2: LabelRequired *)

\* The last statement came to next_field and starts with neither a label
\* nor `map`.
C2_NoLabelNoMap ==
    /\ AtField
    /\ \A w \in LabelWords \cup {"map"} : ~First(w)

\* C2: in the proto2 message and extend modes a field statement without
\* label and without `map` fails with LabelRequired; in the three other
\* modes it does not, and the field it makes has no rule; every field of a
\* proto2 message, group or extend body has a rule or a map type.
C2_LabelRequired ==
    /\ (C2_NoLabelNoMap /\ stmt.mode \in {"MessageProto2", "ExtendProto2"})
         => err = "LabelRequired"
    /\ (C2_NoLabelNoMap /\ stmt.mode \in {"MessageProto3", "ExtendProto3", "Oneof"})
         => /\ err # "LabelRequired"
            /\ Accepted => NewField.rule = "None"
    /\ syntax = "Proto2" =>
         \A x \in AllTagged :
           x.in = "body" => (x.f.rule # "None" \/ x.f.typ.k = "Map")

\* A field without label has failed in a proto2 message body.
C2_Witness ==
    /\ stmt.mode = "MessageProto2"
    /\ stmt.toks = <<Ident("int32")>> \o FieldEnd
    /\ err = "LabelRequired"

----------------------------------------------------------------------------
(* C3: LabelNotAllowed *)

C3_Forbidden(M) ==
    CASE M = "Oneof" -> {"optional", "repeated", "required"}
      [] M \in {"MessageProto3", "ExtendProto3"} -> {"required"}
      [] OTHER -> {}

C3_Rule(w) ==
    CASE w = "optional" -> "Optional"
      [] w = "repeated" -> "Repeated"
      [] w = "required" -> "Required"

\* C3: a statement that starts with a label fails with LabelNotAllowed
\* exactly when the mode forbids the label; a well-formed field with a label
\* the mode allows is accepted with that rule; the members of a oneof have
\* no rule.
C3_LabelNotAllowed ==
    /\ InBody =>
         \A w \in LabelWords :
           /\ First(w) => (err = "LabelNotAllowed" <=> w \in C3_Forbidden(stmt.mode))
           /\ (stmt.toks = <<Ident(w), Ident("int32")>> \o FieldEnd
               /\ w \notin C3_Forbidden(stmt.mode))
                => (Accepted /\ NewField.rule = C3_Rule(w))
    /\ \A x \in AllTagged : x.in = "oneof" => x.f.rule = "None"

\* `required` has failed in a proto3 message body.
C3_Witness ==
    /\ stmt.mode = "MessageProto3"
    /\ First("required")
    /\ err = "LabelNotAllowed"

----------------------------------------------------------------------------
(* C4: MapFieldNotAllowed *)

\* C4: a statement that starts with `map` fails with MapFieldNotAllowed in
\* a oneof and only there; no member of a oneof has a map type; in the four
\* other modes a map field is accepted, without rule.
C4_MapFieldNotAllowed ==
    /\ (stmt.mode = "Oneof" /\ First("map")) => err = "MapFieldNotAllowed"
    /\ (InBody /\ stmt.mode # "Oneof") => err # "MapFieldNotAllowed"
    /\ (InBody /\ stmt.mode # "Oneof" /\ stmt.toks = MapInput \o FieldEnd)
         => /\ Accepted
            /\ NewField.rule = "None"
            /\ NewField.typ.k = "Map"
    /\ \A x \in AllTagged : x.in = "oneof" => x.f.typ.k # "Map"

\* A map field has failed in a oneof.
C4_Witness ==
    /\ stmt.mode = "Oneof"
    /\ stmt.toks = MapInput \o FieldEnd
    /\ err = "MapFieldNotAllowed"

----------------------------------------------------------------------------
(* C5, C6: a oneof in a oneof, a oneof in an extend *)

\* C5: a oneof statement directly in a oneof body fails with OneOfInOneOf.
C5_OneOfInOneOf ==
    (stmt.mode = "Oneof" /\ First("oneof")) => err = "OneOfInOneOf"

\* C6: a oneof statement directly in an extend body fails with
\* OneOfInExtend.
C6_OneOfInExtend ==
    (stmt.mode \in {"ExtendProto2", "ExtendProto3"} /\ First("oneof"))
      => err = "OneOfInExtend"

----------------------------------------------------------------------------
(* C7: the location of an error *)

\* The place of `group` in the last statement: first, or after a label.
GroupAt ==
    IF First("group") THEN 1
    ELSE IF Len(stmt.toks) >= 2 /\ IsId(stmt.toks[2], "group")
              /\ \E w \in LabelWords : First(w)
    THEN 2 ELSE 0

\* C7: a failed parse returns the error with a line and a column that are
\* at least 1 and nothing of the file.  The place is the one the parser's
\* own tokenizer last looked at, within the statement that failed or right
\* after it: for an error raised while a clone looked ahead it is the place
\* the parser stood at, the first token of the statement for the errors of
\* the label and of `map`, the token `group` for the error of a group's name.
C7_ErrorLocation ==
    result.t = "Err" =>
      LET at == [line |-> result.line, col |-> result.col] IN
      /\ DOMAIN result = {"t", "error", "line", "col"}
      /\ result.error = err /\ err # "None"
      /\ result.line >= 1 /\ result.col >= 1
      /\ at = TokLoc(IF tk.lexed = 0 THEN 1 ELSE tk.lexed)
      /\ \E k \in stmt.start .. stmt.start + Len(stmt.toks) + 1 :
           k >= 1 /\ at = TokLoc(k)
      /\ (stmt.toks # <<>>
          /\ err \in {"LabelRequired", "LabelNotAllowed", "MapFieldNotAllowed"})
           => at = TokLoc(stmt.start + 1)
      /\ err = "GroupNameShouldStartWithUpperCase"
           => (GroupAt > 0 /\ at = TokLoc(stmt.start + GroupAt))

\* A parse has failed at the name of a group that follows a label.
C7_Witness ==
    /\ result.t = "Err"
    /\ result.error = "GroupNameShouldStartWithUpperCase"
    /\ GroupAt = 2

----------------------------------------------------------------------------
(* C8: the syntax of the file *)

\* The strings that read "proto3": written plainly, or with an escape.
C8_Proto3Statements == {SyntaxStmt(proto3), SyntaxStmt(proto3x)}

C8_ModeOf(kind, syn) ==
    CASE kind \in {"message", "group"} ->
           IF syn = "Proto3" THEN "MessageProto3" ELSE "MessageProto2"
      [] kind = "extend" ->
           IF syn = "Proto3" THEN "ExtendProto3" ELSE "ExtendProto2"
      [] kind = "oneof" -> "Oneof"

C8_State ==
    /\ (stmt.mode = "Header" /\ Accepted) =>
         /\ stmt.toks \in C8_Proto3Statements \cup {SyntaxStmt(proto2), <<>>}
         /\ syntax = "Proto3" <=> stmt.toks \in C8_Proto3Statements
         /\ syntax = "Proto2" <=> stmt.toks \in {SyntaxStmt(proto2), <<>>}
    /\ stmt.mode = "Header" =>
         (err = "UnknownSyntax" <=> stmt.toks = SyntaxStmt(proto))
    /\ syntax \in {"Proto2", "Proto3"}
    /\ \A j \in 1..Len(stack) :
         stack[j].mode = C8_ModeOf(stack[j].kind, syntax)
    /\ result.t = "Ok" => result.syntax = syntax

\* C8: the syntax is Proto3 exactly when the file starts with a syntax
\* statement that reads "proto3", Proto2 when it reads "proto2" or is
\* absent; a syntax statement that reads anything else fails with
\* UnknownSyntax; every open message, group and extend body has the mode of
\* the syntax; and no step after the header changes the syntax.
C8_Syntax ==
    /\ []C8_State
    /\ [][pc # "start" => syntax' = syntax]_vars

\* A group body is open in a message of a proto3 file.
C8_Witness ==
    /\ syntax = "Proto3"
    /\ Len(stack) >= 2
    /\ stack[Len(stack)].kind = "group"
    /\ stack[Len(stack)].mode = "MessageProto3"

----------------------------------------------------------------------------
(* C9: a syntax statement that is not the first statement *)

\* C9 as stated: a syntax statement after another top-level declaration is
\* parsed successfully.
C9_LateSyntaxParsed ==
    (stmt.mode = "Top" /\ decls >= 1
     /\ stmt.toks \in {SyntaxStmt(proto2), SyntaxStmt(proto3)})
      => Accepted

\* C9, amended: a syntax statement is taken only as the first statement of
\* the file; in the loop of the top level, after a declaration or after the
\* first syntax statement, it fails with IncorrectInput.
C9_LateSyntaxFails ==
    (stmt.mode = "Top" /\ First("syntax")) =>
      /\ err = "IncorrectInput"
      /\ pc \in {"failed", "returned"}

\* A syntax statement has failed after another top-level declaration.
C9_Witness ==
    /\ stmt.mode = "Top"
    /\ decls >= 1
    /\ stmt.toks = SyntaxStmt(proto3)
    /\ err = "IncorrectInput"

----------------------------------------------------------------------------
(* C10: the name of a group *)

C10_Uppercase == {"A", "B", "C", "D", "E", "F", "G", "H", "I", "J", "K", "L", "M",
                  "N", "O", "P", "Q", "R", "S", "T", "U", "V", "W", "X", "Y", "Z"}

C10_Lowercase(c) ==
    CASE c = "A" -> "a" [] c = "B" -> "b" [] c = "F" -> "f" [] OTHER -> c

\* C10: a group statement whose label, if any, is accepted fails with
\* GroupNameShouldStartWithUpperCase when the group's name does not start
\* with an uppercase letter, and is accepted only when it does; a field of
\* group type is named by the lowercase of the group's name, which starts
\* with an uppercase letter, and has no options.
C10_GroupName ==
    /\ (InBody /\ GroupAt > 0 /\ Len(stmt.toks) > GroupAt
        /\ stmt.toks[GroupAt + 1].k = "Ident") =>
         LET first == Chars(stmt.toks[GroupAt + 1].v)[1] IN
         /\ Accepted => first \in C10_Uppercase
         /\ (first \notin C10_Uppercase
             /\ err \notin {"LabelRequired", "LabelNotAllowed"})
              => err = "GroupNameShouldStartWithUpperCase"
         /\ err = "GroupNameShouldStartWithUpperCase" => first \notin C10_Uppercase
    /\ \A x \in AllTagged :
         x.f.typ.k = "Group" =>
           /\ x.f.name = [i \in 1..Len(x.f.typ.name) |-> C10_Lowercase(x.f.typ.name[i])]
           /\ x.f.typ.name[1] \in C10_Uppercase
           /\ x.f.options = <<>>

\* A group named Ab has been parsed into a field named ab.
C10_Witness ==
    \E x \in AllTagged :
      /\ x.f.typ.k = "Group"
      /\ x.f.typ.name = <<"A", "b">>
      /\ x.f.name = <<"a", "b">>

----------------------------------------------------------------------------
(* Text: a sequence of characters.  The numbers of Rust's to_string and    *)
(* of the lexer's integer literals, on the limbs of a u64.                 *)

DigitChars == <<"0", "1", "2", "3", "4", "5", "6", "7", "8", "9">>

\* One limb divided by ten after the remainder r of the limb above it.
div10_limb(r, x) ==
    Let((r * 32768) + (x \div 65536), LAMBDA t :
    Let(((t % 10) * 65536) + (x % 65536), LAMBDA t2 :
    [q |-> ((t \div 10) * 65536) + (t2 \div 10), r |-> t2 % 10]))

\* A u64 divided by ten: the quotient and the remainder.
div10(u) ==
    Let(div10_limb(u.a % 10, u.b), LAMBDA b :
    Let(div10_limb(b.r, u.c), LAMBDA c :
    [q |-> u64(u.a \div 10, b.q, c.q), r |-> c.r]))

\* u64::to_string: the decimal digits, without leading zeros.
RECURSIVE u64_to_string(_)
u64_to_string(u) ==
    IF u = small(0) THEN <<"0">>
    ELSE IF div10(u).q = small(0) THEN <<DigitChars[div10(u).r + 1]>>
    ELSE Append(u64_to_string(div10(u).q), DigitChars[div10(u).r + 1])

\* i64::to_string: `-` before the digits of a negative number.
i64_to_string(i) ==
    IF i.neg THEN <<"-">> \o u64_to_string(i.mag) ELSE u64_to_string(i.mag)

\* One limb times base plus the carry k of the limb below it.
mul_limb(x, base, k) ==
    Let(((x % 65536) * base) + k, LAMBDA lo :
    Let(((x \div 65536) * base) + (lo \div 65536), LAMBDA hi :
    [v |-> ((hi % 32768) * 65536) + (lo % 65536), k |-> hi \div 32768]))

\* u * base + d on u64, or overflow.
mul_add(u, base, d) ==
    Let(mul_limb(u.c, base, d), LAMBDA c :
    Let(mul_limb(u.b, base, c.k), LAMBDA b :
    Let((u.a * base) + b.k, LAMBDA a :
    IF a > 3 THEN [err |-> "IntegerOverflow", v |-> small(0)]
    ELSE [err |-> "None", v |-> u64(a, b.v, c.v)])))

----------------------------------------------------------------------------
(* The lexer, Proto mode (spec 4.2): text to tokens.                       *)

LetterChars ==
    {"a", "b", "c", "d", "e", "f", "g", "h", "i", "j", "k", "l", "m", "n", "o",
     "p", "q", "r", "s", "t", "u", "v", "w", "x", "y", "z", "A", "B", "E", "F",
     "M", "S", "_"}
DigitSet == {"0", "1", "2", "3", "4", "5", "6", "7", "8", "9"}
QuoteChars == {"\"", "'"}

DigitVal(c) == CHOOSE i \in 0..9 : DigitChars[i + 1] = c

\* The value of a digit of the base, -1 for any other character.
DigitOf(c, base) ==
    Let(CASE c \in DigitSet -> DigitVal(c)
          [] c \in {"a", "A"} -> 10 [] c \in {"b", "B"} -> 11
          [] c \in {"c", "C"} -> 12 [] c \in {"d", "D"} -> 13
          [] c \in {"e", "E"} -> 14 [] c \in {"f", "F"} -> 15
          [] OTHER -> -1, LAMBDA d :
    IF d < base THEN d ELSE -1)

\* Identifier: [A-Za-z_][A-Za-z0-9_]*; v holds the characters taken so far.
RECURSIVE take_ident(_, _)
take_ident(s, v) ==
    IF s # <<>> /\ Head(s) \in LetterChars \cup DigitSet
    THEN take_ident(Tail(s), v \o Head(s))
    ELSE [v |-> v, rest |-> s]

\* The digits of an integer literal of the base; u is the value so far.
RECURSIVE take_digits(_, _, _)
take_digits(s, base, u) ==
    IF s = <<>> \/ DigitOf(Head(s), base) < 0
    THEN [err |-> "None", v |-> u, rest |-> s]
    ELSE Let(mul_add(u, base, DigitOf(Head(s), base)), LAMBDA n :
         IF n.err # "None" THEN [err |-> n.err, v |-> u, rest |-> s]
         ELSE take_digits(Tail(s), base, n.v))

\* The digits of the fraction of a float literal, as written.
RECURSIVE take_fraction(_, _)
take_fraction(s, v) ==
    IF s # <<>> /\ Head(s) \in DigitSet
    THEN take_fraction(Tail(s), v \o Head(s))
    ELSE [v |-> v, rest |-> s]

\* Integer literal: hex 0[xX][0-9A-Fa-f]+, octal 0[0-7]*, decimal
\* [1-9][0-9]*; a float literal when a `.` follows the digits.
take_number(s) ==
    IF Len(s) >= 2 /\ Head(s) = "0" /\ s[2] \in {"x", "X"}
    THEN IF Len(s) < 3 \/ DigitOf(s[3], 16) < 0
         THEN [err |-> "UnexpectedChar", tok |-> EofTok, rest |-> s]
         ELSE Let(take_digits(Tail(Tail(s)), 16, small(0)), LAMBDA h :
              [err |-> h.err, tok |-> IntLit(h.v), rest |-> h.rest])
    ELSE Let(take_fraction(s, ""), LAMBDA w :
         IF w.rest # <<>> /\ Head(w.rest) = "."
         THEN Let(take_fraction(Tail(w.rest), w.v \o "."), LAMBDA f :
              [err |-> "None", tok |-> FloatLit(f.v), rest |-> f.rest])
         ELSE Let(take_digits(s, IF Head(s) = "0" THEN 8 ELSE 10, small(0)), LAMBDA d :
              [err |-> d.err, tok |-> IntLit(d.v), rest |-> d.rest]))

\* String literal: the body as written, escapes kept, up to the matching
\* quote that no backslash precedes.
RECURSIVE take_str(_, _, _)
take_str(s, q, body) ==
    IF s = <<>> THEN [err |-> "UnexpectedEof", v |-> body, rest |-> s]
    ELSE IF Head(s) = q THEN [err |-> "None", v |-> body, rest |-> Tail(s)]
    ELSE IF Head(s) = "\\"
    THEN IF Len(s) < 2 THEN [err |-> "UnexpectedEof", v |-> body, rest |-> <<>>]
         ELSE take_str(Tail(Tail(s)), q, body \o <<"\\", s[2]>>)
    ELSE take_str(Tail(s), q, Append(body, Head(s)))

\* The tokens of the text s after the tokens acc, or the lexer's error.
RECURSIVE tokenize(_, _)
tokenize(s, acc) ==
    IF s = <<>> THEN [err |-> "None", v |-> acc]
    ELSE IF Head(s) = " " THEN tokenize(Tail(s), acc)
    ELSE IF Head(s) \in LetterChars
    THEN Let(take_ident(s, ""), LAMBDA i : tokenize(i.rest, Append(acc, Ident(i.v))))
    ELSE IF Head(s) \in DigitSet
    THEN Let(take_number(s), LAMBDA n :
         IF n.err # "None" THEN [err |-> n.err, v |-> acc]
         ELSE tokenize(n.rest, Append(acc, n.tok)))
    ELSE IF Head(s) \in QuoteChars
    THEN Let(take_str(Tail(s), Head(s), <<>>), LAMBDA l :
         IF l.err # "None" THEN [err |-> l.err, v |-> acc]
         ELSE tokenize(l.rest, Append(acc, StrLit(l.v))))
    ELSE tokenize(Tail(s), Append(acc, Symbol(Head(s))))

----------------------------------------------------------------------------
(* Canonical text: src/src/model.rs 76-156, src/src/lexer/token.rs 18-29,  *)
(* src/src/lexer/strlit.rs 23-27, 57-59                                    *)

\* The characters of a name or of a float as written; a name that is not
\* listed is one character.
Spell(name) ==
    CASE name = "true"  -> <<"t", "r", "u", "e">>
      [] name = "false" -> <<"f", "a", "l", "s", "e">>
      [] name = "truth" -> <<"t", "r", "u", "t", "h">>
      [] name = "a1"    -> <<"a", "1">>
      [] name = "_b"    -> <<"_", "b">>
      [] name = "1.5"   -> <<"1", ".", "5">>
      [] name = "1.0"   -> <<"1", ".", "0">>
      [] OTHER          -> <<name>>

\* Display of a path: its parts one after the other.
RECURSIVE path_to_string(_)
path_to_string(path) ==
    IF path = <<>> THEN <<>> ELSE Spell(Head(path)) \o path_to_string(Tail(path))

\* StrLit::quoted
quoted(lit) == <<"\"">> \o lit.escaped \o <<"\"">>

\* format_protobuf_float: the sign and the digits of the float.
format_protobuf_float(f) == (IF f.neg THEN <<"-">> ELSE <<>>) \o Spell(f.mag)

\* Display of ProtobufConstantMessageFieldName and of AnyTypeUrl
field_name_to_string(n) ==
    CASE n.t = "Regular"    -> Spell(n.name)
      [] n.t = "Extension"  -> <<"[">> \o path_to_string(n.path) \o <<"]">>
      [] n.t = "AnyTypeUrl" ->
            <<"[">> \o path_to_string(n.prefix) \o <<"/">>
            \o path_to_string(n.full_type_name) \o <<"]">>

RECURSIVE format(_), fields_format(_)

\* ProtobufConstant::format
format(c) ==
    CASE c.t = "U64"     -> u64_to_string(c.n)
      [] c.t = "I64"     -> i64_to_string(c.n)
      [] c.t = "F64"     -> format_protobuf_float(c.f)
      [] c.t = "Bool"    -> IF c.b THEN Spell("true") ELSE Spell("false")
      [] c.t = "Ident"   -> path_to_string(c.path)
      [] c.t = "String"  -> quoted(c.s)
      [] c.t = "Message" -> <<"{">> \o fields_format(c.fields) \o <<"}">>

\* The loop of ProtobufConstantMessage::format: nothing is written between
\* one field and the next.
fields_format(fields) ==
    IF fields = <<>> THEN <<>>
    ELSE (IF Head(fields).v.t = "Message"
          THEN field_name_to_string(Head(fields).n) \o <<" ">> \o format(Head(fields).v)
          ELSE field_name_to_string(Head(fields).n) \o <<":", " ">>
               \o format(Head(fields).v))
         \o fields_format(Tail(fields))

\* f64::to_string: the shortest digits that give the float back, a whole
\* number without its fraction.
f64_to_string(f) ==
    (IF f.neg THEN <<"-">> ELSE <<>>)
    \o (IF f.mag = "1.0" THEN <<"1">> ELSE Spell(f.mag))

\* Token::format
token_format(t) ==
    CASE t.k = "Ident"      -> Spell(t.v)
      [] t.k = "Symbol"     -> <<t.v>>
      [] t.k = "IntLit"     -> u64_to_string(t.n)
      [] t.k = "StrLit"     -> quoted(t)
      [] t.k = "FloatLit"   -> f64_to_string(t.f)
      [] t.k = "JsonNumber" -> Spell(t.v)

----------------------------------------------------------------------------
(* Methods of the parser applied alone.  A new parser is given a piece of  *)
(* input and one method is called on it: stmt holds the piece and the name *)
(* of the method, tk the tokenizer the call leaves, err the error and      *)
(* result the value returned and the tokens left unread.                   *)

\* The call of the method name on the piece ts has returned r.
Returned(name, ts, r) ==
    /\ pc' = "returned"
    /\ stmt' = [toks |-> ts, mode |-> name, start |-> 0]
    /\ tk' = [pos |-> r.p.pos, lexed |-> r.p.lexed]
    /\ err' = r.err
    /\ result' = [t |-> "Returned", v |-> r.v, rest |-> r.p.ts]
    /\ UNCHANGED <<syntax, stack, file, decls>>

\* 0, 1, 19000, 19999, 2^29 - 1, 2^31 - 1, 2^31, 2^31 + 1, 2^32, 2^63 - 1,
\* 2^63, 2^63 + 1, 2^64 - 1
Numbers ==
    {small(0), small(1), small(19000), small(19999), small(RangeMax),
     U_I32_MAX, U_2_31, u64(0, 1, 1), u64(0, 2, 0), U_I64_MAX, U_2_63,
     u64(2, 0, 1), u64(3, Limb, Limb)}

\* One token of each kind that is not an integer literal.
OtherTokens ==
    {Ident("a"), Ident("true"), Symbol("-"), Symbol(";"), Symbol("{"),
     StrLit(<<"a">>), FloatLit("1.5"), JsonNumber("1e3")}

FieldNumberInputs ==
    {<<>>} \cup {<<IntLit(n)>> : n \in Numbers} \cup {<<t>> : t \in OtherTokens}
    \cup {<<IntLit(n), Symbol(";")>> : n \in {small(1), U_2_31}}

CallFieldNumber ==
    /\ pc = "start"
    /\ \E ts \in FieldNumberInputs :
         Returned("next_field_number", ts, Call("next_field_number", <<Reading(ts)>>))

EnumValueInputs ==
    {<<>>, <<Symbol("-")>>, <<Symbol("-"), Symbol("-"), IntLit(small(1))>>,
     <<Symbol("+"), IntLit(small(1))>>}
    \cup {<<IntLit(n)>> : n \in Numbers}
    \cup {<<Symbol("-"), IntLit(n)>> : n \in Numbers}
    \cup {<<t>> : t \in OtherTokens \ {Symbol("-")}}
    \cup {<<Symbol("-"), t>> : t \in OtherTokens \ {Symbol("-")}}

CallEnumValue ==
    /\ pc = "start"
    /\ \E ts \in EnumValueInputs :
         Returned("next_enum_value", ts, Call("next_enum_value", <<Reading(ts)>>))

Signs == {Symbol("+"), Symbol("-")}

\* A message constant with the tokens body between its braces.
Braces(body) == <<Symbol("{")>> \o body \o <<Symbol("}")>>
One == IntLit(small(1))
Colon == Symbol(":")

\* The fields a message constant may be written with.
FieldPieces ==
    {<<Ident("a"), Colon, One>>,
     <<Ident("a"), Colon, Symbol("-"), One>>,
     <<Ident("a"), Colon, StrLit(<<"a">>)>>,
     <<Ident("a"), Colon, Ident("true")>>,
     <<Ident("a"), Colon, Ident("b")>>,
     <<Ident("a"), Colon, FloatLit("1.5")>>,
     <<Ident("a"), One>>,
     <<Ident("a"), StrLit(<<"a">>)>>,
     <<Ident("a"), Ident("true")>>,
     <<Ident("a"), Ident("b")>>,
     <<Ident("a"), FloatLit("1.5")>>,
     <<Ident("a"), Symbol("-"), One>>,
     <<Ident("b")>> \o Braces(<<Ident("c"), Colon, One>>),
     <<Ident("b"), Colon>> \o Braces(<<Ident("c"), Colon, One>>),
     <<Ident("b")>> \o Braces(<<>>),
     <<Ident("b"), Colon>> \o Braces(<<>>),
     <<Ident("b")>> \o Braces(<<Ident("c"), One>>),
     <<Symbol("["), Ident("a"), Symbol("]"), Colon, One>>,
     <<Symbol("["), Ident("a"), Symbol("/"), Ident("b"), Symbol("]")>> \o Braces(<<>>)}

Separators == {<<>>, <<Symbol(",")>>, <<Symbol(";")>>}

MessageConstants ==
    {Braces(<<>>), <<Symbol("{")>>, <<Symbol("{"), Ident("a"), Colon, One>>,
     Braces(<<Ident("a"), Colon, Ident("b"), Ident("c"), Colon, One>>)}
    \cup {Braces(f) : f \in FieldPieces}
    \cup {Braces(<<Ident("a"), Colon, One>> \o sep \o g) :
            sep \in Separators,
            g \in {<<Ident("b"), Colon, IntLit(small(0))>>,
                   <<Ident("a"), Colon, IntLit(small(0))>>,
                   <<Ident("b")>> \o Braces(<<>>)}}
    \cup {Braces(<<Ident("a"), Colon, One>> \o sep) : sep \in Separators \ {<<>>}}

ConstantInputs ==
    {<<>>}
    \cup {<<IntLit(n)>> : n \in Numbers}
    \cup {<<sg, IntLit(n)>> : sg \in Signs, n \in Numbers}
    \cup {<<sg, t>> : sg \in Signs, t \in OtherTokens}
    \cup {<<sg>> : sg \in Signs}
    \cup {<<t>> : t \in OtherTokens \cup {Symbol("("), Symbol("}"), Ident("false")}}
    \cup {<<Ident("a"), Symbol("."), Ident("b")>>,
          <<Symbol("."), Ident("a")>>,
          <<Ident("true"), Symbol("."), Ident("a")>>,
          <<Ident("a"), Symbol(".")>>,
          <<Ident("truth")>>,
          <<One, Symbol(";")>>,
          <<StrLit(<<"a">>), StrLit(<<"b">>)>>}
    \cup MessageConstants

\* Message constants of up to MaxFields fields named a or b, valued 0 or 1.
MaxFields == 3

FieldsWritten ==
    UNION {[1..k -> {"a", "b"} \X {0, 1}] : k \in 0..MaxFields}

RECURSIVE Flat(_)
Flat(fs) ==
    IF fs = <<>> THEN <<>>
    ELSE <<Ident(Head(fs)[1]), Colon, IntLit(small(Head(fs)[2]))>> \o Flat(Tail(fs))

RepeatedFields == {Braces(Flat(fs)) : fs \in FieldsWritten}

CallConstant ==
    /\ pc = "start"
    /\ \E ts \in ConstantInputs \cup RepeatedFields :
         Returned("next_constant", ts, Call("next_constant", <<Reading(ts)>>))

Dot == Symbol(".")

\* ( name ) with the tokens name between the parentheses.
Parens(name) == <<Symbol("(")>> \o name \o <<Symbol(")")>>

\* The parts an option name may be written with.
NameParts ==
    {<<Ident("a")>>, <<Ident("b")>>,
     Parens(<<Ident("a")>>), Parens(<<Ident("a"), Dot, Ident("b")>>),
     Parens(<<Dot, Ident("a")>>)}

OptionNameInputs ==
    NameParts
    \cup {x \o <<Dot>> \o y : x, y \in NameParts}
    \cup {x \o <<Dot>> \o y \o <<Dot>> \o z :
            x \in {<<Ident("a")>>, Parens(<<Ident("a")>>)},
            y \in {<<Ident("b")>>, Parens(<<Ident("b")>>)},
            z \in {<<Ident("c")>>, Parens(<<Ident("c")>>)}}
    \cup {x \o <<Symbol("="), One>> : x \in NameParts}
    \cup {<<>>, <<Dot>>, <<Dot, Ident("a")>>, <<Ident("a"), Dot>>,
          <<Symbol("(")>>, Parens(<<>>), <<Symbol("("), Ident("a")>>,
          Parens(<<Ident("a")>>) \o <<Dot>>, Parens(<<One>>),
          Parens(Parens(<<Ident("a")>>)), <<One>>, <<StrLit(<<"a">>)>>,
          Parens(<<Ident("a")>>) \o Parens(<<Ident("b")>>),
          <<Ident("a"), Ident("b")>>}

CallOptionName ==
    /\ pc = "start"
    /\ \E ts \in OptionNameInputs :
         Returned("next_option_name", ts, Call("next_option_name", <<Reading(ts)>>))

\* enum E with the tokens body between its braces.
Enum(body) == <<Ident("enum"), Ident("E")>> \o Braces(body)

Semi == Symbol(";")
ValueOption(n) == <<Ident(n), Symbol("="), One>>

\* The ways an enum value is written, without its `;`.
EnumValues ==
    {<<Ident("A"), Symbol("="), IntLit(small(0))>>,
     <<Ident("A"), Symbol("="), Symbol("-"), One>>,
     <<Ident("A"), Symbol("="), IntLit(small(0)), Symbol("[")>>
        \o ValueOption("a") \o <<Symbol("]")>>,
     <<Ident("A"), Symbol("="), IntLit(small(0)), Symbol("[")>>
        \o ValueOption("a") \o <<Symbol(",")>> \o ValueOption("b") \o <<Symbol("]")>>}

EnumEnds == {<<>>, <<Semi>>}

EnumInputs ==
    {Enum(<<>>), Enum(<<Semi>>), <<Ident("enum"), Ident("E")>>, <<Ident("enum")>>,
     <<Ident("message"), Ident("E")>> \o Braces(<<>>), <<>>,
     <<Ident("enum"), Ident("E"), Symbol("{"), Ident("A"), Symbol("="), One, Semi>>,
     Enum(<<Ident("A"), Symbol("="), Semi>>),
     Enum(<<Ident("A"), One, Semi>>),
     Enum(<<Ident("A"), Symbol("="), IntLit(U_2_31), Semi>>),
     Enum(<<Ident("A"), Symbol("="), One, Symbol(",")>>),
     Enum(<<Ident("A"), Symbol("="), One, Symbol("["), Symbol("]"), Semi>>),
     Enum(<<Ident("option"), Ident("a"), Symbol("="), One, Semi>>),
     Enum(<<Ident("option"), Ident("a"), Symbol("="), One>>)}
    \cup {Enum(v \o e) : v \in EnumValues, e \in EnumEnds}
    \cup {Enum(v \o e \o <<Ident("B"), Symbol("="), One>> \o f) :
            v \in EnumValues, e \in EnumEnds, f \in EnumEnds}

CallEnum ==
    /\ pc = "start"
    /\ \E ts \in EnumInputs :
         Returned("next_enum_opt", ts, Call("next_enum_opt", <<Reading(ts)>>))

Three == IntLit(small(3))
Comma == Symbol(",")

\* The ranges a reserved statement may list.
RangeItems ==
    {<<One>>, <<Three>>, <<One, Ident("to"), Three>>, <<Three, Ident("to"), One>>,
     <<One, Ident("to"), Ident("max")>>, <<IntLit(small(RangeMax))>>}

NameItems == {<<StrLit(<<"a">>)>>, <<StrLit(<<"p">>)>>}

\* reserved list ;
Reserved(list) == <<Ident("reserved")>> \o list \o <<Semi>>

ReservedStatements ==
    {Reserved(x) : x \in RangeItems \cup NameItems}
    \cup {Reserved(x \o <<Comma>> \o y) :
            x \in {<<One>>, <<One, Ident("to"), Ident("max")>>, <<StrLit(<<"a">>)>>},
            y \in {<<Three>>, <<Three, Ident("to"), One>>, <<StrLit(<<"p">>)>>}}
    \cup {Reserved(<<One, Comma, Three, Comma, One, Ident("to"), Ident("max")>>),
          Reserved(<<StrLit(<<"a">>), Comma, StrLit(<<"p">>), Comma, StrLit(<<"a">>)>>)}

ReservedInputs ==
    ReservedStatements
    \cup {<<Ident("reserved")>> \o x : x \in RangeItems \cup NameItems}
    \cup {<<Ident("reserved")>> \o x \o <<Symbol("}")>> : x \in RangeItems \cup NameItems}
    \cup {Reserved(<<One>>) \o <<Semi>>,
          Reserved(<<>>), <<Ident("reserved")>>, <<>>, <<Semi>>,
          <<Ident("extensions"), One, Semi>>,
          Reserved(<<One, Ident("to")>>),
          Reserved(<<Ident("to"), Three>>),
          Reserved(<<Ident("max")>>),
          Reserved(<<Ident("a")>>),
          Reserved(<<One, Ident("to"), Ident("max"), Ident("to"), Three>>),
          Reserved(<<One, Comma>>),
          Reserved(<<StrLit(<<"a">>), Comma>>),
          Reserved(<<One, Three>>),
          Reserved(<<StrLit(<<"a">>), StrLit(<<"p">>)>>),
          Reserved(<<IntLit(U_2_31)>>),
          Reserved(<<One, Ident("to"), IntLit(U_2_31)>>),
          Reserved(<<Symbol("-"), One>>),
          Reserved(<<StrLit(<<"\\", "x">>)>>)}

CallReserved ==
    /\ pc = "start"
    /\ \E ts \in ReservedInputs :
         Returned("next_reserved_opt", ts, Call("next_reserved_opt", <<Reading(ts)>>))

\* Enums whose bodies are reserved statements only.
ReservedEnums ==
    {Enum(x \o y) : x, y \in {Reserved(<<One>>), Reserved(<<Three, Ident("to"), Ident("max")>>),
                               Reserved(<<StrLit(<<"a">>)>>), Reserved(<<StrLit(<<"p">>)>>)}}
    \cup {Enum(Reserved(<<StrLit(<<"p">>)>>) \o Reserved(<<Three, Comma, One>>)
               \o Reserved(<<StrLit(<<"a">>)>>) \o Reserved(<<One>>))}

CallReservedEnum ==
    /\ pc = "start"
    /\ \E ts \in ReservedEnums :
         Returned("next_enum_opt", ts, Call("next_enum_opt", <<Reading(ts)>>))

\* The bodies a reserved statement is read into.
BodiesBefore ==
    {EmptyBody,
     [EmptyBody EXCEPT !.reserved_nums = <<[from |-> 3, to |-> 3]>>,
                       !.reserved_names = <<<<112>>>>]}

\* The method has returned r on the piece ts, read into the body of frame.
ReturnedIn(frame, ts, r) ==
    /\ pc' = "returned"
    /\ stmt' = [toks |-> ts, mode |-> "next_message_body", start |-> 0]
    /\ tk' = [pos |-> r.p.pos, lexed |-> r.p.lexed]
    /\ err' = r.err
    /\ result' = [t |-> "Returned", v |-> r.v, rest |-> r.p.ts]
    /\ stack' = <<frame>>
    /\ UNCHANGED <<syntax, file, decls>>

\* One iteration of the loop of next_message_body on a body read so far.
CallBodyIter ==
    /\ pc = "start"
    /\ \E ts \in ReservedStatements, r \in BodiesBefore, mode \in Modes :
         ReturnedIn([Frame("message", mode, "M", "None", 0, TokLoc(1)) EXCEPT !.r = r],
                    ts,
                    Call("next_message_body_iter", <<Reading(ts), mode, syntax, r>>))

\* service S with the tokens body between its braces.
Service(body) == <<Ident("service"), Ident("S")>> \o Braces(body)

Streamed(s, t) == IF s THEN <<Ident("stream"), Ident(t)>> ELSE <<Ident(t)>>

\* rpc r ( [stream] A ) returns ( [stream] B )
Rpc(c, sv) ==
    <<Ident("rpc"), Ident("r")>> \o Parens(Streamed(c, "A"))
    \o <<Ident("returns")>> \o Parens(Streamed(sv, "B"))

\* stream s ( A , B )
Stream == <<Ident("stream"), Ident("s")>> \o Parens(<<Ident("A"), Comma, Ident("B")>>)

\* The ways a method ends.
MethodEnds ==
    {<<Semi>>, Braces(<<>>), Braces(<<Semi>>),
     Braces(<<Ident("option"), Ident("a"), Symbol("="), One, Semi>>)}

Methods ==
    {Rpc(c, sv) \o e : c \in BOOLEAN, sv \in BOOLEAN, e \in MethodEnds}
    \cup {Stream \o e : e \in MethodEnds}

\* Services whose statements are all well formed.
Services ==
    {Service(<<>>), Service(<<Semi>>),
     Service(<<Ident("option"), Ident("a"), Symbol("="), One, Semi>>)}
    \cup {Service(m) : m \in Methods}
    \cup {Service(m \o n) :
            m \in {Rpc(TRUE, FALSE) \o <<Semi>>, Stream \o <<Semi>>, Stream \o Braces(<<>>)},
            n \in {Rpc(FALSE, TRUE) \o <<Semi>>, Stream \o <<Semi>>}}

ServiceInputs ==
    Services
    \cup {<<>>, <<Ident("service")>>, <<Ident("service"), Ident("S")>>,
          <<Ident("service"), Ident("S"), Symbol("{")>>,
          <<Ident("message"), Ident("S")>> \o Braces(<<>>),
          Service(Rpc(FALSE, FALSE)), Service(Stream),
          Service(<<Ident("rpc"), Ident("r")>> \o Parens(<<Ident("A")>>) \o <<Semi>>),
          Service(<<Ident("stream"), Ident("s")>> \o Parens(<<Ident("A")>>) \o <<Semi>>),
          Service(<<Ident("stream"), Ident("s")>>
                  \o Parens(<<Ident("stream"), Ident("A"), Comma, Ident("B")>>) \o <<Semi>>),
          Service(<<Ident("stream"), Semi>>),
          Service(<<Ident("a"), Semi>>),
          Service(<<One>>),
          Service(Rpc(FALSE, FALSE) \o Braces(<<Ident("a")>>))}

\* next_proto has read `syntax = "proto3";`.
SyntaxProto3 ==
    /\ pc = "start"
    /\ syntax = "Proto2"
    /\ syntax' = "Proto3"
    /\ UNCHANGED <<pc, tk, stack, file, err, stmt, decls, result>>

CallService ==
    /\ pc = "start"
    /\ \E ts \in ServiceInputs :
         Returned("next_service_opt", ts, Call("next_service_opt", <<Reading(ts), syntax>>))

\* The parser of Parser::new(text): the tokens of the text, none consumed.
Parser_new(toks) == [ts |-> toks, pos |-> 0, lexed |-> 0]

\* next_constant on the text: the lexer's error or the parser's result.
constant_of_text(text) ==
    Let(tokenize(text, <<>>), LAMBDA l :
    IF l.err # "None" THEN Err("LexerError", Parser_new(<<>>))
    ELSE Call("next_constant", <<Parser_new(l.v)>>))

\* c parsed from ts, the text of c, and what next_constant reads in it.
Reparsed(ts, c, again) ==
    Returned("format", ts,
             [err |-> again.err, p |-> again.p,
              v |-> [c |-> c, text |-> format(c), again |-> again.v]])

\* A constant is parsed, formatted, and parsed from its text.
CallFormat ==
    /\ pc = "start"
    /\ \E ts \in ConstantInputs :
         Let(Call("next_constant", <<Reading(ts)>>), LAMBDA c :
         /\ c.err = "None"
         /\ Reparsed(ts, c.v, constant_of_text(format(c.v))))

\* The texts of the tokens, a space between one and the next.
RECURSIVE tokens_format(_)
tokens_format(toks) ==
    IF toks = <<>> THEN <<>>
    ELSE IF Len(toks) = 1 THEN token_format(Head(toks))
    ELSE token_format(Head(toks)) \o <<" ">> \o tokens_format(Tail(toks))

\* Well-formed inputs: each kind of token, integers in each base, strings
\* in each quote style, with and without escapes.
Texts ==
    {<<"a">>, <<"a", "1", " ", "_", "b">>, <<"t", "r", "u", "e">>,
     <<"a", ".", "b">>, <<"{", "a", ":", " ", "1", "}">>, <<";">>, <<"-", "1">>,
     <<"0">>, <<"7">>, <<"1", "0">>, <<"0", "1", "7">>, <<"0", "x", "1", "f">>,
     <<"0", "X", "F", "F">>, <<"4", "2", "9", "4", "9", "6", "7", "2", "9", "6">>,
     <<"0", "x", "f", "f", "f", "f", "f", "f", "f", "f", "f", "f", "f", "f", "f",
       "f", "f", "f">>,
     <<"1", ".", "5">>, <<"1", ".", "0">>,
     <<"\"", "a", "\"">>, <<"'", "a", "'">>, <<"\"", "\"">>, <<"'", "'">>,
     <<"\"", "a", " ", "b", "\"">>, <<"'", "a", " ", "b", "'">>,
     <<"\"", "'", "\"">>, <<"'", "\"", "'">>,
     <<"\"", "\\", "\"", "\"">>, <<"'", "\\", "'", "'">>,
     <<"'", "\\", "\"", "'">>, <<"'", "a", "\"", "b", "'">>,
     <<"\"", "\\", "x", "3", "3", "\"">>,
     <<"\"", "a", "\"", " ", "'", "b", "'">>,
     <<"a", " ", "=", " ", "'", "a", "'", ";">>}

\* The text is tokenized, its tokens are formatted and tokenized again.
CallTokens ==
    /\ pc = "start"
    /\ \E text \in Texts :
         Let(tokenize(text, <<>>), LAMBDA l :
         /\ l.err = "None"
         /\ Let(tokenize(tokens_format(l.v), <<>>), LAMBDA again :
            Returned("Token::format", l.v,
                     [err |-> again.err, p |-> Parser_new(<<>>),
                      v |-> [text |-> text, formatted |-> tokens_format(l.v),
                             again |-> again.v]])))

\* The characters string bodies are drawn from.
BodyChars == {"a", "\\", "x", "3", "2"}

\* Bodies: every short one, and longer ones whose escapes give bytes above 127.
Bodies ==
    UNION {[1..n -> BodyChars] : n \in 0..3}
    \cup {<<"\\", "3", "2", "3">>, <<"\\", "x", "a", "3">>, <<"\\", "x", "3", "3">>,
          <<"\\", "3", "2", "3", "\\", "x", "a", "3">>,
          <<"\\", "3", "2", "3", "a">>, <<"a", "\\", "3", "2", "3">>,
          <<"\\", "x", "a", "3", "\\", "3", "2", "3">>,
          <<"\\", "3", "2", "3", "\\", "x", "a", "3", "\\", "x">>}

\* decode_utf8 and decode_bytes of one literal; both take &self.
CallDecode ==
    /\ pc = "start"
    /\ \E body \in Bodies :
         Let(StrLit(body), LAMBDA lit :
         Returned("decode", <<lit>>,
                  [err |-> decode_utf8(lit).err, p |-> Parser_new(<<>>),
                   v |-> [utf8 |-> decode_utf8(lit), bytes |-> decode_bytes(lit),
                          s |-> lit]]))

\* What the methods that look ahead are given: nothing, labels, `map`,
\* `extend`, group names and other names.
LookaheadInputs ==
    {<<>>, <<Ident("optional")>>, <<Ident("required"), Ident("int32")>>,
     <<Ident("repeated")>>, <<Ident("map"), Symbol("<")>>, <<Ident("extend")>>,
     <<Ident("extend"), Ident("Foo"), Symbol("{")>>, <<Ident("Foo"), Symbol("=")>>,
     <<Ident("foo")>>, <<One>>, <<Ident("int32"), Ident("a")>>}

\* The parser before the call: some tokens consumed, the next one lexed or not.
ParsersBefore ==
    {[ts |-> ts, pos |-> n, lexed |-> n + l] :
       ts \in LookaheadInputs, n \in {0, 2}, l \in {0, 1}}

Lookaheads == {"next_label", "next_group_name", "next_extend_opt", "next_field_rule"}

\* One of the methods that work on a clone, applied alone.
CallLookahead ==
    /\ pc = "start"
    /\ \E name \in Lookaheads, p \in ParsersBefore, mode \in Modes :
         Let(CASE name = "next_label" -> Call("next_label", <<p, mode>>)
               [] name = "next_group_name" -> Call("next_group_name", <<p>>)
               [] name = "next_extend_opt" -> Call("next_extend_opt", <<p, syntax>>)
               [] name = "next_field_rule" -> Call("next_field_rule", <<p, mode>>),
             LAMBDA r :
             Returned(name, p.ts,
                      [err |-> r.err, p |-> r.p,
                       v |-> [v |-> r.v, before |-> p, mode |-> mode]]))

UnitNext ==
    \/ SyntaxProto3
    \/ CallLookahead
    \/ CallDecode
    \/ CallTokens
    \/ CallFormat
    \/ CallService
    \/ CallFieldNumber
    \/ CallEnumValue
    \/ CallConstant
    \/ CallOptionName
    \/ CallEnum
    \/ CallReserved
    \/ CallReservedEnum
    \/ CallBodyIter

UnitSpec == Init /\ [][UnitNext]_vars

\* The method name was called and has returned.
Called(name) == pc = "returned" /\ stmt.mode = name

\* The first token of the piece is an integer literal.
FirstIsInt == stmt.toks # <<>> /\ Head(stmt.toks).k = "IntLit"

\* C11: next_field_number accepts an integer literal exactly when it is at
\* most 2^31 - 1 (both high limbs zero), returns that number and consumes
\* the literal alone; a larger literal fails with IntegerOverflow and any
\* other token with IncorrectInput.
C11_FieldNumber ==
    Called("next_field_number") =>
      /\ FirstIsInt =>
           LET n == Head(stmt.toks).n IN
           IF n.a = 0 /\ n.b = 0
           THEN /\ err = "None"
                /\ result.v = n.c
                /\ result.v \in 0..I32_MAX
                /\ result.rest = Tail(stmt.toks)
           ELSE err = "IntegerOverflow"
      /\ (stmt.toks # <<>> /\ ~FirstIsInt) => err = "IncorrectInput"
      /\ err = "None" => FirstIsInt

\* The piece is an integer literal after a minus sign.
MinusInt ==
    /\ Len(stmt.toks) >= 2
    /\ IsSy(stmt.toks[1], "-")
    /\ stmt.toks[2].k = "IntLit"

I32_MIN == (0 - I32_MAX) - 1

\* The literal 2^31 - 1 was accepted as a field number.
C11_Witness ==
    /\ Called("next_field_number")
    /\ FirstIsInt
    /\ Head(stmt.toks).n = U_I32_MAX
    /\ err = "None"
    /\ result.v = I32_MAX

\* C12: next_enum_value accepts L when L <= 2^31 - 1 and returns L; it
\* accepts -L when L <= 2^31 and returns the negation, i32::MIN for
\* L = 2^31 and 0 for L = 0; every other L, with or without the sign, fails
\* with IntegerOverflow.  The sign and the literal are what it consumes.
C12_EnumValue ==
    Called("next_enum_value") =>
      /\ FirstIsInt =>
           LET n == Head(stmt.toks).n IN
           IF n.a = 0 /\ n.b = 0
           THEN err = "None" /\ result.v = n.c /\ result.rest = Tail(stmt.toks)
           ELSE err = "IntegerOverflow"
      /\ MinusInt =>
           LET n == stmt.toks[2].n IN
           CASE n.a = 0 /\ n.b = 0 ->
                  err = "None" /\ result.v = 0 - n.c /\ result.rest = <<>>
             [] n.a = 0 /\ n.b = 1 /\ n.c = 0 ->
                  err = "None" /\ result.v = I32_MIN /\ result.rest = <<>>
             [] OTHER -> err = "IntegerOverflow"
      /\ err = "None" => /\ FirstIsInt \/ MinusInt
                         /\ result.v \in I32_MIN..I32_MAX

\* -2147483648 was read as i32::MIN.
C12_Witness ==
    /\ Called("next_enum_value")
    /\ MinusInt
    /\ stmt.toks[2].n = U_2_31
    /\ err = "None"
    /\ result.v = I32_MIN

\* The piece is an integer literal after the sign sg.
SignedInt(sg) ==
    /\ Len(stmt.toks) >= 2
    /\ IsSy(stmt.toks[1], sg)
    /\ stmt.toks[2].k = "IntLit"

\* C13: in a constant an integer literal u, bare or after `+`, is U64(u);
\* after `-` it is I64(-u) when u <= 2^63 (sign kept beside the magnitude,
\* zero unsigned) and fails with IntegerOverflow above; a constant that is
\* an I64 was written as `-` and an integer literal, so `-0` is I64(0).
C13_SignedConstant ==
    Called("next_constant") =>
      /\ FirstIsInt =>
           /\ err = "None"
           /\ result.v = [t |-> "U64", n |-> Head(stmt.toks).n]
      /\ SignedInt("+") =>
           /\ err = "None"
           /\ result.v = [t |-> "U64", n |-> stmt.toks[2].n]
      /\ SignedInt("-") =>
           LET u == stmt.toks[2].n IN
           IF u.a < 2 \/ (u.a = 2 /\ u.b = 0 /\ u.c = 0)
           THEN /\ err = "None"
                /\ result.v = [t |-> "I64",
                               n |-> [neg |-> u # small(0), mag |-> u]]
           ELSE err = "IntegerOverflow"
      /\ (err = "None" /\ result.v.t = "I64") => SignedInt("-")
      /\ (err = "None" /\ result.v.t = "U64") => FirstIsInt \/ SignedInt("+")

\* -0 was read as I64(0) and -2^63 as i64::MIN.
C13_Witness ==
    /\ Called("next_constant")
    /\ SignedInt("-")
    /\ stmt.toks[2].n = U_2_63
    /\ err = "None"
    /\ result.v = [t |-> "I64", n |-> [neg |-> TRUE, mag |-> U_2_63]]

ConstantVariants == {"U64", "I64", "F64", "String", "Ident", "Bool", "Message"}

FirstIs(kind) == stmt.toks # <<>> /\ Head(stmt.toks).k = kind
FirstIsSy(c) == stmt.toks # <<>> /\ IsSy(Head(stmt.toks), c)
FirstIsBool == FirstIs("Ident") /\ Head(stmt.toks).v \in {"true", "false"}
SecondIsNumber == Len(stmt.toks) >= 2 /\ stmt.toks[2].k \in {"IntLit", "FloatLit"}

\* C14: next_constant decides on the next token, first match first: `{`
\* gives a Message, the identifiers true and false a Bool (and nothing more
\* is read), `+` or `-` is consumed and must be followed by an integer or a
\* float literal, a string literal gives a String, an integer or a float
\* literal a U64 or an F64, any other identifier an Ident, and every other
\* token fails with ExpectConstant; a successful call gives one of the seven
\* variants.
C14_ConstantOrder ==
    Called("next_constant") =>
      /\ (FirstIsSy("{") /\ err = "None") => result.v.t = "Message"
      /\ FirstIsBool =>
           /\ err = "None"
           /\ result.v = [t |-> "Bool", b |-> Head(stmt.toks).v = "true"]
           /\ result.rest = Tail(stmt.toks)
      /\ (FirstIsSy("+") \/ FirstIsSy("-")) =>
           IF SecondIsNumber
           THEN /\ err \in {"None", "IntegerOverflow"}
                /\ err = "None" =>
                     /\ result.v.t \in {"U64", "I64", "F64"}
                     /\ (result.v.t = "F64") = (stmt.toks[2].k = "FloatLit")
                     /\ result.rest = Tail(Tail(stmt.toks))
           ELSE err \notin {"None", "ExpectConstant"}
      /\ FirstIs("StrLit") =>
           /\ err = "None"
           /\ result.v = [t |-> "String", s |-> Head(stmt.toks)]
           /\ result.rest = Tail(stmt.toks)
      /\ FirstIs("IntLit") => err = "None" /\ result.v.t = "U64"
      /\ FirstIs("FloatLit") =>
           /\ err = "None"
           /\ result.v = [t |-> "F64", f |-> Head(stmt.toks).f]
      /\ (FirstIs("Ident") /\ ~FirstIsBool /\ err = "None") => result.v.t = "Ident"
      /\ (FirstIs("Ident") /\ ~FirstIsBool /\ Len(stmt.toks) = 1) => err = "None"
      /\ ( /\ stmt.toks # <<>>
           /\ ~FirstIs("Ident") /\ ~FirstIs("StrLit")
           /\ ~FirstIs("IntLit") /\ ~FirstIs("FloatLit")
           /\ ~FirstIsSy("{") /\ ~FirstIsSy("+") /\ ~FirstIsSy("-") )
           => err = "ExpectConstant"
      /\ err = "None" => result.v.t \in ConstantVariants

\* `true.a` was read as the bool true with `.a` left over.
C14_Witness ==
    /\ Called("next_constant")
    /\ stmt.toks = <<Ident("true"), Symbol("."), Ident("a")>>
    /\ err = "None"
    /\ result.v.t = "Bool"
    /\ result.rest = <<Symbol("."), Ident("a")>>

\* The places of the piece where a field name stands right after a `{`.
FirstNames ==
    {i \in 2..Len(stmt.toks) :
        IsSy(stmt.toks[i - 1], "{") /\ stmt.toks[i].k = "Ident"}

\* The token after place i, Eof at the end of the piece.
TokenAfter(i) == IF i < Len(stmt.toks) THEN stmt.toks[i + 1] ELSE EofTok

NestedWithColon == Braces(<<Ident("b"), Colon>> \o Braces(<<Ident("c"), Colon, One>>))
NestedBare == Braces(<<Ident("b")>> \o Braces(<<Ident("c"), Colon, One>>))

\* The constant { b { c: 1 } }.
NestedValue ==
    [t |-> "Message",
     fields |-> index_insert(<<>>, [t |-> "Regular", name |-> "b"],
                  [t |-> "Message",
                   fields |-> index_insert(<<>>, [t |-> "Regular", name |-> "c"],
                                [t |-> "U64", n |-> small(1)])])]

\* C15: in a message constant a field name is followed by `:` or by `{`,
\* so a scalar value needs the colon; before a nested message the colon is
\* optional, { b: { c: 1 } } and { b { c: 1 } } are both accepted and are
\* the same constant; a `,` or a `;` between fields is refused.
C15_FieldValueColon ==
    (Called("next_constant") /\ FirstIsSy("{")) =>
      /\ \A i \in FirstNames :
           (~IsSy(TokenAfter(i), ":") /\ ~IsSy(TokenAfter(i), "{")) => err # "None"
      /\ stmt.toks \in {NestedWithColon, NestedBare} =>
           err = "None" /\ result.v = NestedValue /\ result.rest = <<>>
      /\ (\E i \in 1..Len(stmt.toks) :
              IsSy(stmt.toks[i], ",") \/ IsSy(stmt.toks[i], ";")) => err # "None"
      /\ stmt.toks = Braces(<<Ident("a"), Colon, One, Ident("b"), Colon, IntLit(small(0))>>)
           => err = "None" /\ Len(result.v.fields) = 2

\* { b: { c: 1 } } was accepted.
C15_Witness ==
    /\ Called("next_constant")
    /\ stmt.toks = NestedWithColon
    /\ err = "None"
    /\ result.v = NestedValue

\* C15 as stated: a `:` before a nested `{` value is refused.
C15_ColonForbiddenBeforeMessage ==
    (Called("next_constant") /\ FirstIsSy("{")) =>
      \A i \in FirstNames :
        ( /\ IsSy(TokenAfter(i), ":")
          /\ i + 2 <= Len(stmt.toks)
          /\ IsSy(stmt.toks[i + 2], "{") ) => err # "None"

\* The tokens the call has consumed.
Consumed == Len(stmt.toks) - Len(result.rest)

\* The number of symbols c before place i of the piece.
CountBefore(i, c) == Cardinality({j \in 1..(i - 1) : IsSy(stmt.toks[j], c)})

\* The places where a part of the name begins: the first token, and each
\* token after a `.` that is outside parentheses.
PartStarts ==
    {i \in 1..Consumed :
        /\ CountBefore(i, "(") = CountBefore(i, ")")
        /\ i = 1 \/ IsSy(stmt.toks[i - 1], ".")}

\* The place where the j-th part begins.
PartStart(j) ==
    CHOOSE i \in PartStarts : Cardinality({k \in PartStarts : k < i}) = j - 1

\* C16: next_option_name returns Builtin(n) exactly when the name read is
\* one bare identifier n; otherwise it returns Ext with one part for each
\* part written, in the order written, a bare identifier being Direct and a
\* parenthesised name Ext; an Ext name is never a single Direct part.
C16_OptionName ==
    (Called("next_option_name") /\ err = "None") =>
      /\ result.v.t \in {"Builtin", "Ext"}
      /\ (result.v.t = "Builtin") = (Consumed = 1 /\ FirstIs("Ident"))
      /\ result.v.t = "Builtin" => result.v.n = Head(stmt.toks).v
      /\ result.v.t = "Ext" =>
           /\ result.v.parts # <<>>
           /\ ~(Len(result.v.parts) = 1 /\ result.v.parts[1].t = "Direct")
           /\ Len(result.v.parts) = Cardinality(PartStarts)
           /\ \A j \in 1..Len(result.v.parts) :
                IF stmt.toks[PartStart(j)].k = "Ident"
                THEN result.v.parts[j] =
                       [t |-> "Direct", n |-> stmt.toks[PartStart(j)].v]
                ELSE /\ IsSy(stmt.toks[PartStart(j)], "(")
                     /\ result.v.parts[j].t = "Ext"

\* (a) alone was read as an Ext name of one part.
C16_Witness ==
    /\ Called("next_option_name")
    /\ stmt.toks = Parens(<<Ident("a")>>)
    /\ err = "None"
    /\ result.v = [t |-> "Ext", parts |-> <<[t |-> "Ext", n |-> <<"a">>]>>]

\* C17: only the first part of an option name is parenthesised: each part
\* after the first `.` is Direct, and a name with `(` after the first part
\* is not accepted.
C17_OnlyFirstPartParenthesised ==
    Called("next_option_name") =>
      /\ (err = "None" /\ result.v.t = "Ext") =>
           \A j \in 2..Len(result.v.parts) : result.v.parts[j].t = "Direct"
      /\ (\E i \in 2..Len(stmt.toks) :
              IsSy(stmt.toks[i - 1], ".") /\ IsSy(stmt.toks[i], "(")
              /\ CountBefore(i, "(") = CountBefore(i, ")"))
           => err # "None"

\* An extensions declaration has just been read in a body and the parse
\* goes on.
ExtensionsRead == pc = "body" /\ InBody /\ First("extensions") /\ Accepted

\* C18: an extensions declaration is accepted in MessageProto2 mode only,
\* and its ranges are followed by `;`: when the token after the ranges is
\* another one, the parse fails.
C18_ExtensionsEndWithSemicolon ==
    [][ExtensionsRead =>
         /\ stmt.mode = "MessageProto2"
         /\ (stmt'.toks # <<>> /\ IsSy(Head(stmt'.toks), ";")) \/ err' # "None"]_vars

\* The token at place i of the piece, Eof outside it.
TokenAt(i) == IF i \in 1..Len(stmt.toks) THEN stmt.toks[i] ELSE EofTok

\* The `=` of the enum values of the piece: after a name, outside `[ ]`.
ValueEquals ==
    {i \in 3..Len(stmt.toks) :
        /\ IsSy(stmt.toks[i], "=")
        /\ stmt.toks[i - 1].k = "Ident"
        /\ ~IsId(stmt.toks[i - 2], "option")
        /\ CountBefore(i, "[") = CountBefore(i, "]")}

\* The place of the number of the value whose `=` is at i.
NumberPlace(i) == IF IsSy(TokenAt(i + 1), "-") THEN i + 2 ELSE i + 1

\* The last token of the value whose `=` is at i: its number, or the `]`
\* of its options.
ValueEnd(i) ==
    IF IsSy(TokenAt(NumberPlace(i) + 1), "[")
    THEN CHOOSE j \in NumberPlace(i)..Len(stmt.toks) :
           /\ IsSy(stmt.toks[j], "]")
           /\ \A k \in NumberPlace(i)..(j - 1) : ~IsSy(stmt.toks[k], "]")
    ELSE NumberPlace(i)

\* C19: every enum value ends with `;`: an enum in which a value, with or
\* without options, is directly followed by another value or by `}` fails
\* to parse.
C19_EnumValueEndsWithSemicolon ==
    Called("next_enum_opt") =>
      \A i \in ValueEquals :
        ( /\ TokenAt(NumberPlace(i)).k = "IntLit"
          /\ \/ TokenAt(ValueEnd(i) + 1).k = "Ident"
             \/ IsSy(TokenAt(ValueEnd(i) + 1), "}") ) => err # "None"

\* The ranges written in the tokens ts, in the order written: a lone
\* number n is n..=n, `a to b` is a..=b, `a to max` is a..=536870911.
RECURSIVE RangesWritten(_)
RangesWritten(ts) ==
    IF ts = <<>> THEN <<>>
    ELSE IF Head(ts).k # "IntLit" THEN RangesWritten(Tail(ts))
    ELSE IF Len(ts) >= 3 /\ IsId(ts[2], "to")
    THEN <<[from |-> ts[1].n.c,
            to |-> IF IsId(ts[3], "max") THEN 536870911 ELSE ts[3].n.c]>>
         \o RangesWritten(SubSeq(ts, 4, Len(ts)))
    ELSE <<[from |-> ts[1].n.c, to |-> ts[1].n.c]>> \o RangesWritten(Tail(ts))

\* The names written in the tokens ts, in the order written.
RECURSIVE NamesWritten(_)
NamesWritten(ts) ==
    IF ts = <<>> THEN <<>>
    ELSE IF Head(ts).k = "StrLit"
         THEN <<decode_utf8(Head(ts)).v>> \o NamesWritten(Tail(ts))
         ELSE NamesWritten(Tail(ts))

HasToken(kind) == \E i \in 1..Len(stmt.toks) : stmt.toks[i].k = kind

\* The tokens the call has read.
Read == SubSeq(stmt.toks, 1, Consumed)

\* C20: a reserved statement is a list of names exactly when a string
\* literal follows the keyword, a list of ranges otherwise, never both;
\* n is n..=n, `a to b` is a..=b, `a to max` is a..=536870911; it ends with
\* `;`; and the reserved_nums and reserved_names of a body are those of its
\* reserved statements one after the other.
C20_Reserved ==
    /\ (Called("next_reserved_opt") /\ First("reserved")) =>
         /\ err = "None" =>
              /\ result.v.some
              /\ IsSy(stmt.toks[Consumed], ";")
              /\ IF stmt.toks[2].k = "StrLit"
                 THEN /\ result.v.ranges = <<>>
                      /\ result.v.names = NamesWritten(Read)
                      /\ result.v.names # <<>>
                 ELSE /\ result.v.names = <<>>
                      /\ result.v.ranges = RangesWritten(Read)
                      /\ result.v.ranges # <<>>
         /\ stmt.toks \in ReservedStatements =>
              (err = "None") = ~(HasToken("StrLit") /\ HasToken("IntLit"))
         /\ ~(\E i \in 1..Len(stmt.toks) : IsSy(stmt.toks[i], ";")) => err # "None"
    /\ (Called("next_enum_opt") /\ stmt.toks \in ReservedEnums) =>
         /\ err = "None"
         /\ result.v.e.reserved_nums = RangesWritten(stmt.toks)
         /\ result.v.e.reserved_names = NamesWritten(stmt.toks)
    /\ (Called("next_message_body") /\ is_most_non_fields_allowed(stack[1].mode)) =>
         IF HasToken("StrLit") /\ HasToken("IntLit") THEN err # "None"
         ELSE /\ err = "None"
              /\ result.v.r.reserved_nums =
                   stack[1].r.reserved_nums \o RangesWritten(stmt.toks)
              /\ result.v.r.reserved_names =
                   stack[1].r.reserved_names \o NamesWritten(stmt.toks)

\* `reserved 1, 3, 1 to max;` was read as 1..=1, 3..=3, 1..=536870911.
C20_Witness ==
    /\ Called("next_reserved_opt")
    /\ stmt.toks = Reserved(<<One, Comma, Three, Comma, One, Ident("to"), Ident("max")>>)
    /\ err = "None"
    /\ result.v.ranges = <<[from |-> 1, to |-> 1], [from |-> 3, to |-> 3],
                           [from |-> 1, to |-> 536870911]>>
    /\ result.v.names = <<>>

\* The places of the piece where a method of the service begins.
MethodStarts ==
    {i \in 4..Len(stmt.toks) :
        /\ IsId(stmt.toks[i], "rpc") \/ IsId(stmt.toks[i], "stream")
        /\ IsSy(stmt.toks[i - 1], "{") \/ IsSy(stmt.toks[i - 1], ";")
           \/ IsSy(stmt.toks[i - 1], "}")}

\* The place where the j-th method begins.
MethodStart(j) ==
    CHOOSE i \in MethodStarts : Cardinality({k \in MethodStarts : k < i}) = j - 1

\* The place of `returns` in the rpc that begins at i.
ReturnsAt(i) ==
    CHOOSE k \in i..Len(stmt.toks) :
      /\ IsId(stmt.toks[k], "returns")
      /\ \A l \in i..(k - 1) : ~IsId(stmt.toks[l], "returns")

\* C21: in a service a stream method is accepted under Proto2 only, and
\* streams both ways; under Proto3 the statement fails with IncorrectInput;
\* an rpc streams from the client (from the server) exactly when `stream`
\* is written before its input (output) type.
C21_ServiceMethods ==
    Called("next_service_opt") =>
      /\ err = "None" /\ First("service") =>
           /\ Len(result.v.s.methods) = Cardinality(MethodStarts)
           /\ \A j \in 1..Len(result.v.s.methods) :
                IF IsId(stmt.toks[MethodStart(j)], "stream")
                THEN /\ syntax = "Proto2"
                     /\ result.v.s.methods[j].client_streaming
                     /\ result.v.s.methods[j].server_streaming
                ELSE /\ result.v.s.methods[j].client_streaming
                        = IsId(stmt.toks[MethodStart(j) + 3], "stream")
                     /\ result.v.s.methods[j].server_streaming
                        = IsId(stmt.toks[ReturnsAt(MethodStart(j)) + 2], "stream")
      /\ stmt.toks \in Services =>
           IF syntax = "Proto3"
              /\ \E i \in MethodStarts : IsId(stmt.toks[i], "stream")
           THEN err = "IncorrectInput"
           ELSE err = "None"

\* Under Proto2, `stream s (A, B);` after an rpc was read as a method that
\* streams both ways.
C21_Witness ==
    /\ Called("next_service_opt")
    /\ syntax = "Proto2"
    /\ stmt.toks = Service(Rpc(TRUE, FALSE) \o <<Semi>> \o Stream \o <<Semi>>)
    /\ err = "None"
    /\ Len(result.v.s.methods) = 2
    /\ result.v.s.methods[1].client_streaming /\ ~result.v.s.methods[1].server_streaming
    /\ result.v.s.methods[2].client_streaming /\ result.v.s.methods[2].server_streaming

\* C22: the text ProtobufConstant::format gives for a parsed constant is
\* read by next_constant as a constant equal to the first, variant and
\* content.
C22_FormatRoundTrip ==
    Called("format") =>
      /\ err = "None"
      /\ result.v.again = result.v.c
      /\ result.rest = <<>>

\* C23: the tokens of a well-formed text, formatted by Token::format and
\* joined by spaces, tokenize to the same tokens: strings in either quote
\* style and integers in any base included.
C23_TokenRoundTrip ==
    Called("Token::format") =>
      /\ err = "None"
      /\ result.v.again = stmt.toks

\* The lexer fails on some byte of the body.
RECURSIVE LexerFails(_)
LexerFails(s) ==
    /\ s # <<>>
    /\ \/ next_byte_value(s).err # "None"
       \/ LexerFails(next_byte_value(s).rest)

\* One and two byte characters, by the byte ranges of UTF-8.
RECURSIVE WellFormed(_)
WellFormed(bytes) ==
    \/ bytes = <<>>
    \/ bytes[1] \in 0..127 /\ WellFormed(Tail(bytes))
    \/ /\ Len(bytes) >= 2
       /\ bytes[1] \in 194..223
       /\ bytes[2] \in 128..191
       /\ WellFormed(Tail(Tail(bytes)))

\* C24: decode_utf8 succeeds exactly when decode_bytes succeeds with valid
\* UTF-8, and then gives the same bytes; a lexer failure is OtherError from
\* both; only decode_utf8 gives FromUtf8Error; the literal is left as it was.
C24_DecodeAgree ==
    Called("decode") =>
      /\ (result.v.utf8.err = "None")
           <=> (result.v.bytes.err = "None" /\ WellFormed(result.v.bytes.v))
      /\ result.v.utf8.err = "None" => result.v.utf8.v = result.v.bytes.v
      /\ LexerFails(result.v.s.escaped)
           <=> (result.v.utf8.err = "OtherError" /\ result.v.bytes.err = "OtherError")
      /\ result.v.bytes.err \in {"None", "OtherError"}
      /\ result.v.utf8.err \in {"None", "OtherError", "FromUtf8Error"}
      /\ result.v.utf8.err = "FromUtf8Error" => result.v.bytes.err = "None"
      /\ result.v.s = stmt.toks[1]

\* `\xa3` alone decodes to the byte 163: decode_bytes gives it and
\* decode_utf8 refuses it; `\323\xa3` decodes with both.
C24_Witness ==
    /\ Called("decode")
    /\ result.v.s.escaped = <<"\\", "x", "a", "3">>
    /\ result.v.bytes = [err |-> "None", v |-> <<163>>]
    /\ result.v.utf8.err = "FromUtf8Error"

\* One turn of the top-level loop or of a body's loop.
LoopTurn == pc \in {"top", "body"} /\ pc' \in {"top", "body"}

RECURSIVE GroupsClean(_)
GroupsClean(fields) ==
    \A i \in 1..Len(fields) :
      IF fields[i].t = "OneOf" THEN GroupsClean(fields[i].fields)
      ELSE fields[i].typ.k = "Group" =>
             /\ ~HasOneOf(fields[i].typ.fields)
             /\ GroupsClean(fields[i].typ.fields)

RECURSIVE MessagesClean(_)
MessagesClean(ms) ==
    \A i \in 1..Len(ms) :
      /\ GroupsClean(ms[i].fields)
      /\ MessagesClean(ms[i].messages)
      /\ \A j \in 1..Len(ms[i].extensions) : GroupsClean(<<ms[i].extensions[j].field>>)

\* The body of a group in which a oneof was read meets its `}`.
GroupWithOneOfCloses ==
    /\ pc = "body"
    /\ stack[Len(stack)].kind = "group"
    /\ HasOneOf(stack[Len(stack)].r.fields)
    /\ stmt'.toks = <<Symbol("}")>>

\* C26: when the body of a group in which a oneof was read ends, the parse
\* fails with OneOfInGroup, whatever encloses the group; no group of a parsed
\* file, and none of a body read so far, holds a oneof.
C26_OneOfInGroup ==
    /\ [][GroupWithOneOfCloses => pc' = "failed" /\ err' = "OneOfInGroup"]_vars
    /\ [](/\ MessagesClean(file.messages)
          /\ \A j \in 1..Len(file.extensions) : GroupsClean(<<file.extensions[j].field>>)
          /\ \A n \in 1..Len(stack) :
               /\ GroupsClean(stack[n].r.fields)
               /\ MessagesClean(stack[n].r.messages))

\* A group inside a oneof of a message held a oneof, and the parse failed at
\* the end of the group.
C26_Witness ==
    /\ pc = "failed"
    /\ err = "OneOfInGroup"
    /\ stmt.toks = <<Symbol("}")>>
    /\ tk.pos = 16

\* The parser's stream is what it was before the call.
Untouched ==
    /\ tk = [pos |-> result.v.before.pos, lexed |-> result.v.before.lexed]
    /\ result.rest = result.v.before.ts

\* The call consumed at least one token.
Ahead == tk.pos > result.v.before.pos /\ Len(result.rest) < Len(result.v.before.ts)

\* C27: next_label that returns None or fails, next_group_name that fails,
\* next_extend_opt that returns None and the `map` probe of next_field leave
\* the position and the lookahead as they were; a lookahead that commits
\* moves the position forward; the position never moves backward.
C27_CloneLookahead ==
    /\ Called("next_label") =>
         /\ err \in {"None", "LabelNotAllowed", "LabelRequired"}
         /\ IF err = "None" /\ result.v.v # "None" THEN Ahead ELSE Untouched
    /\ Called("next_group_name") => IF err = "None" THEN Ahead ELSE Untouched
    /\ Called("next_extend_opt") =>
         /\ ~First("extend") => err = "None" /\ result.v.v.act = "none" /\ Untouched
         /\ err = "None" /\ First("extend") => Ahead
    /\ Called("next_field_rule") =>
         IF First("map") \/ err # "None" \/ result.v.v = "None"
         THEN Untouched ELSE Ahead
    /\ pc = "returned" /\ stmt.mode \in Lookaheads => tk.pos >= result.v.before.pos

\* `optional` in a oneof: next_label failed with LabelNotAllowed and the
\* parser, which had lexed nothing yet, still has lexed nothing.
C27_Witness ==
    /\ Called("next_label")
    /\ stmt.toks = <<Ident("optional")>>
    /\ result.v.mode = "Oneof"
    /\ err = "LabelNotAllowed"
    /\ result.v.before.lexed = result.v.before.pos
    /\ tk.lexed = tk.pos

\* The innermost open body is a group's.
InGroup == pc = "body" /\ stack[Len(stack)].kind = "group"

\* The statements other than fields that a message body takes under the syntax.
GroupStatements ==
    {<<Ident("reserved"), IntLit(small(1)), Symbol(";")>>,
     <<Ident("option"), Ident("a"), Symbol("="), IntLit(small(1)), Symbol(";")>>,
     <<Ident("message"), Ident("Foo"), Symbol("{")>>,
     <<Ident("enum"), Ident("Foo"), Symbol("{"), Symbol("}")>>,
     <<Ident("extend"), Ident("Foo"), Symbol("{")>>}
    \cup (IF syntax = "Proto2" THEN {<<Ident("extensions"), IntLit(small(1))>>} ELSE {})

\* The body that encloses the innermost one, after the step.
Parent == stack'[Len(stack')].r

\* C28: the body of a group is read in the message mode of the file syntax
\* whatever encloses it: its option, reserved, extensions (Proto2), message,
\* enum and extend statements are accepted, and when it ends the enclosing
\* body gains one field, a Group of the name and the fields alone.
C28_GroupBody ==
    /\ [](\A n \in 1..Len(stack) :
            stack[n].kind = "group" => stack[n].mode = message_mode(syntax))
    /\ [][InGroup /\ stmt'.toks \in GroupStatements => pc' = "body" /\ err' = "None"]_vars
    /\ [][InGroup /\ stmt'.toks = <<Symbol("}")>> /\ pc' = "body" =>
            /\ Len(stack') = Len(stack) - 1
            /\ Parent = [stack[Len(stack) - 1].r EXCEPT !.fields = Parent.fields]
            /\ Parent.fields[Len(Parent.fields)].typ
                 = [k |-> "Group", name |-> Chars(stack[Len(stack)].name),
                    fields |-> stack[Len(stack)].r.fields]
            /\ Len(Parent.fields) = Len(stack[Len(stack) - 1].r.fields) + 1]_vars

\* A group in a oneof, whose mode refuses `reserved`, has read a reserved
\* statement and then its `}`: the oneof holds the group, without it.
C28_Witness ==
    /\ pc = "body"
    /\ Len(stack) = 2
    /\ stack[2].kind = "oneof"
    /\ stmt.toks = <<Symbol("}")>>
    /\ Len(stack[2].r.fields) = 1
    /\ stack[2].r.fields[1].typ.k = "Group"
    /\ stack[2].r.fields[1].typ.fields = <<>>
    /\ stack[2].r.reserved_nums = <<>>
    /\ tk.pos = 15

\* The fields written in a constant of RepeatedFields: how many, and the
\* name and the value of the i-th.
FieldCount == (Len(stmt.toks) - 2) \div 3
NameAt(i) == stmt.toks[3 * i - 1].v
ValueAt(i) == stmt.toks[3 * i + 1].n

\* The places where a name is written for the first time, and the j-th.
FirstPlaces == {i \in 1..FieldCount : \A h \in 1..(i - 1) : NameAt(h) # NameAt(i)}
FirstPlace(j) ==
    CHOOSE i \in FirstPlaces : Cardinality({h \in FirstPlaces : h < i}) = j - 1

\* The last place where the name written at i is written.
LastPlace(i) ==
    CHOOSE l \in i..FieldCount :
      /\ NameAt(l) = NameAt(i)
      /\ \A h \in (l + 1)..FieldCount : NameAt(h) # NameAt(i)

\* C29: a message constant holds one entry for each name written, in the
\* order in which the names first occur, each with the value written last
\* for its name; writing a name again is no error.
C29_MessageConstantEntries ==
    Called("next_constant") /\ stmt.toks \in RepeatedFields =>
      /\ err = "None"
      /\ result.v.t = "Message"
      /\ Len(result.v.fields) = Cardinality(FirstPlaces)
      /\ Len(result.v.fields) <= FieldCount
      /\ \A j \in 1..Len(result.v.fields) :
           /\ result.v.fields[j].n = [t |-> "Regular", name |-> NameAt(FirstPlace(j))]
           /\ result.v.fields[j].v = [t |-> "U64", n |-> ValueAt(LastPlace(FirstPlace(j)))]

\* `{ a: 1 b: 1 a: 0 }` was read as a: 0 then b: 1, two entries for three
\* fields.
C29_Witness ==
    /\ Called("next_constant")
    /\ stmt.toks = Braces(Flat(<<<<"a", 1>>, <<"b", 1>>, <<"a", 0>>>>))
    /\ err = "None"
    /\ result.v.fields = <<[n |-> [t |-> "Regular", name |-> "a"],
                            v |-> [t |-> "U64", n |-> small(0)]],
                           [n |-> [t |-> "Regular", name |-> "b"],
                            v |-> [t |-> "U64", n |-> small(1)]]>>

\* C30: the assertion at the start of next_stream_opt never fails: whatever
\* the input and the syntax, parse does not panic.
C30_StreamAssertionHolds ==
    /\ err # "Panic"
    /\ pc = "returned" /\ result.t = "Err" => result.error # "Panic"

\* Under Proto2 a service with a stream method was read: next_stream_opt was
\* called and gave the method.
C30_Witness ==
    /\ pc = "top"
    /\ syntax = "Proto2"
    /\ err = "None"
    /\ Len(file.services) = 1
    /\ Len(file.services[1].methods) = 1
    /\ file.services[1].methods[1].client_streaming
    /\ file.services[1].methods[1].server_streaming

============================================================================
